---------------------------- MODULE Spec2Model ----------------------------
(***************************************************************************)
(* Model of the analytics screen (HomeScreen) of the fleet application:    *)
(* the period aggregation and missing-day detection performed by           *)
(* fetchSummaryData in src/app/(tabs)/notification.tsx, together with the  *)
(* filter handlers that re-run it.                                         *)
(*                                                                         *)
(* Conventions.                                                            *)
(*  - A calendar date is a record [y, m, d] with m in 0..11 (JavaScript    *)
(*    month numbering) and d in 1..31.  Times of day are not modelled: a   *)
(*    date-only ISO string and a seconds Timestamp both fall inside the    *)
(*    local day they name (the device is taken to be east of UTC, as in    *)
(*    the deployment the peso amounts imply).                              *)
(*  - A JavaScript number is a record [nan, v]: NaN absorbs additions.     *)
(*    Amounts are integers; floating point rounding is not modelled.       *)
(*  - A raw amount field is [t, v] with t one of "missing" (undefined or   *)
(*    the empty string), "junk" (a non-numeric string such as "abc" or     *)
(*    "1,000") and "num" (a number or numeric string of value v).          *)
(*  - A raw date field is [t, y, m, d] with t one of "missing",            *)
(*    "junk" (a string that is no date), "iso" (a date string) and "ts"    *)
(*    (a Firestore Timestamp with non-zero seconds).                       *)
(***************************************************************************)
EXTENDS Integers, Sequences, FiniteSets, Bags, TLC

VARIABLES
  vehicleDocs,          \* Firestore collection 'vehicles': sequence of [id, name]
  finances,             \* Firestore collection 'finances': sequence of daily docs
  serviceHistory,       \* vehicles/<id>/service_history: [id -> sequence of docs]
  now,                  \* the device clock (new Date())
  availableVehicles,    \* useState: sequence of [label, value]
  vehicleFilter,        \* useState('all')
  selectedYear,         \* useState(new Date().getFullYear())
  summaryView,          \* useState('month')
  includeAmortization,  \* useState(true)
  selectedMonth,        \* useState(new Date().getMonth())
  selectedQuarter,      \* useState(Math.floor(new Date().getMonth() / 3))
  data,                 \* useState({income, expenses, net})
  details,              \* useState<Record<string, SummaryDetail>>
  rawLogs,              \* useState<LogEntry[]>
  missingDays,          \* useState<Record<string, number[]>>
  loading,              \* useState(true)
  lastRun,              \* how the latest call of fetchSummaryData ended:
                        \* "none" | "skipped" | "ok" | "threw"
  parseISOThrows,       \* the build's date-fns: parseISO(undefined) throws
  drillDownLogs,        \* useState<LogEntry[]>([])
  drillDownTitle,       \* useState("")
  drillDownVisible,     \* useState(false)
  inFlight,             \* the calls of fetchSummaryData that await Firestore:
                        \* sequence of what each call reads
  \* ReportsScreen (src/app/(tabs)/reports.tsx); its states selectedYear,
  \* selectedQuarter, vehicleFilter, includeAmortization and
  \* availableVehicles carry the prefix report here
  reportView,                  \* useState('month')
  reportSelectedYear,          \* useState(new Date().getFullYear())
  reportSelectedQuarter,       \* useState(Math.floor(new Date().getMonth() / 3))
  reportVehicleFilter,         \* useState('all')
  reportIncludeAmortization,   \* useState(true)
  reportAvailableVehicles,     \* useState([])
  chartData,                   \* useState<any>(null)
  lastReportRun,        \* how the latest call of fetchReportData ended
  \* TabTwoScreen, the weekly log editor (src/app/(tabs)/finances.tsx)
  vehicles,             \* useState<Vehicle[]>([])
  selectedVehicle,      \* useState<Vehicle | null>(null)
  weekStart,            \* useState(startOfWeek(new Date(), {weekStartsOn: 1}))
  records,              \* useState<Record<string, DayData>>({})
  loads,                \* the calls of loadWeeklyData that await getDocs
  loadedFor,            \* the vehicle and week of the call that set records
  \* GapRemindersScreen (src/app/(tabs)/notification.tsx); its state
  \* vehicles is reminderVehicles here
  reminderVehicles,     \* useState<{id, name, selected}[]>([])
  selectedDays,         \* useState<number[]>([])
  isReminderActive,     \* useState(false)
  storedConfig,         \* AsyncStorage item '@gap_reminder_config'
  scheduled,            \* the scheduled notifications of the device (a bag)
  syncRuns,             \* the calls of calculateAndSchedule that await
  \* AuthScreen and TabLayout (src/app/(tabs)/_layout.tsx)
  currentUser,          \* auth.currentUser: a uid, or "null"
  storedRole,           \* SecureStore item 'user_role', or "null"
  route,                \* the screen of the root stack that is mounted
  login,                \* the call of handleLogin that awaits, or NoLogin
  role,                 \* useState<string | null>(null)
  isLoading,            \* useState(true)
  driverTab,            \* DriverScreen: "unmounted", "checking" or "ready"
  \* DriverScreen and the background location task
  isSharing,            \* useState(false)
  taskRunning,          \* Location.hasStartedLocationUpdatesAsync(task)
  drivers,              \* Firestore collection 'drivers': [uid -> record]
  toggles,              \* the calls of toggleRealtimeSharing that await
  undelivered,          \* a batch of locations awaits the task
  dateNow               \* Date.now()

vars == << vehicleDocs, finances, serviceHistory, now, availableVehicles,
           vehicleFilter, selectedYear, summaryView, includeAmortization,
           selectedMonth, selectedQuarter, data, details, rawLogs,
           missingDays, loading, lastRun, parseISOThrows, drillDownLogs,
           drillDownTitle, drillDownVisible, inFlight, reportView,
           reportSelectedYear, reportSelectedQuarter, reportVehicleFilter,
           reportIncludeAmortization, reportAvailableVehicles, chartData,
           lastReportRun, vehicles, selectedVehicle, weekStart, records,
           loads, loadedFor, reminderVehicles, selectedDays,
           isReminderActive, storedConfig, scheduled, syncRuns, currentUser,
           storedRole, route, login, role, isLoading, driverTab, isSharing, taskRunning,
           drivers, toggles, undelivered, dateNow >>

-----------------------------------------------------------------------------
(* Bounds of the model *)

\* at most this many documents (daily and service together) in the database
MaxDocs == 2

\* at most this many calls of fetchSummaryData await Firestore at a time
MaxInFlight == 2

-----------------------------------------------------------------------------
(* JavaScript numbers and coercions *)

Num(n) == [nan |-> FALSE, v |-> n]
NaN == [nan |-> TRUE, v |-> 0]

\* a + b
Plus(a, b) == IF a.nan \/ b.nan THEN NaN ELSE Num(a.v + b.v)
\* a - b
Minus(a, b) == IF a.nan \/ b.nan THEN NaN ELSE Num(a.v - b.v)

RMissing == [t |-> "missing", v |-> 0]
RJunk == [t |-> "junk", v |-> 0]
RNum(n) == [t |-> "num", v |-> n]

\* Number(x || 0): undefined, '' and 0 give 0; a non-numeric string gives NaN
NumberOrZero(x) ==
  CASE x.t = "missing" -> Num(0)
    [] x.t = "junk"    -> NaN
    [] OTHER           -> Num(x.v)

-----------------------------------------------------------------------------
(* Texts: String.prototype.toLowerCase and includes over the texts used *)

toLowerCase(s) ==
  CASE s = "Amortization"         -> "amortization"
    [] s = "AMORTIZATION FEE"     -> "amortization fee"
    [] s = "Amortization payment" -> "amortization payment"
    [] s = "Gas"                  -> "gas"
    [] s = "Advertisement"        -> "advertisement"
    [] s = "Oil change"           -> "oil change"
    [] s = "Down payment"         -> "down payment"
    [] OTHER                      -> s

\* s.includes('amortization'), for s one of the lower-cased texts above
includesAmortization(s) ==
  s \in {"amortization", "amortization fee", "amortization payment"}

\* (text || "").toLowerCase().includes('amortization')
isAmortizationText(text) == includesAmortization(toLowerCase(text))

-----------------------------------------------------------------------------
(* Calendar *)

months == << "January", "February", "March", "April", "May", "June", "July",
             "August", "September", "October", "November", "December" >>

Date(y, m, d) == [y |-> y, m |-> m, d |-> d]

isLeapYear(y) == (y % 4 = 0 /\ y % 100 # 0) \/ y % 400 = 0

\* endOfMonth(new Date(y, m, 1)).getDate()
daysInMonth(y, m) ==
  CASE m = 1                -> IF isLeapYear(y) THEN 29 ELSE 28
    [] m \in {3, 5, 8, 10}  -> 30
    [] OTHER                -> 31

\* the order of calendar days (getTime comparisons at day granularity)
dayOrdinal(dt) == (dt.y * 12 + dt.m) * 31 + dt.d

\* the number of the day counted from 1970-01-01
daysFromEpoch(dt) ==
  LET y == IF dt.m <= 1 THEN dt.y - 1 ELSE dt.y
      mp == (dt.m + 10) % 12
      doy == (153 * mp + 2) \div 5 + dt.d - 1
      yoe == y % 400
      doe == yoe * 365 + yoe \div 4 - yoe \div 100 + doy
  IN (y \div 400) * 146097 + doe - 719468

\* Date.prototype.getDay(): 0 is Sunday
getDay(dt) == (daysFromEpoch(dt) + 4) % 7

\* the day after and the day before
nextDay(dt) ==
  IF dt.d < daysInMonth(dt.y, dt.m) THEN Date(dt.y, dt.m, dt.d + 1)
  ELSE IF dt.m < 11 THEN Date(dt.y, dt.m + 1, 1)
  ELSE Date(dt.y + 1, 0, 1)
prevDay(dt) ==
  IF dt.d > 1 THEN Date(dt.y, dt.m, dt.d - 1)
  ELSE IF dt.m > 0 THEN Date(dt.y, dt.m - 1, daysInMonth(dt.y, dt.m - 1))
  ELSE Date(dt.y - 1, 11, 31)

\* addDays(date, n) and subDays(date, n) of date-fns, n >= 0
RECURSIVE addDays(_, _)
addDays(dt, n) == IF n = 0 THEN dt ELSE addDays(nextDay(dt), n - 1)
RECURSIVE subDays(_, _)
subDays(dt, n) == IF n = 0 THEN dt ELSE subDays(prevDay(dt), n - 1)

\* startOfWeek(date, {weekStartsOn: 1}): the Monday on or before the date
startOfWeek(dt) == subDays(dt, (getDay(dt) + 6) % 7)

\* format(date, 'EEEE')
dayName(dt) ==
  << "Sunday", "Monday", "Tuesday", "Wednesday", "Thursday", "Friday",
     "Saturday" >>[getDay(dt) + 1]

RawDate(t, y, m, d) == [t |-> t, y |-> y, m |-> m, d |-> d]
DateMissing == RawDate("missing", 0, 0, 0)
DateJunk == RawDate("junk", 0, 0, 0)
Iso(y, m, d) == RawDate("iso", y, m, d)
Ts(y, m, d) == RawDate("ts", y, m, d)


-----------------------------------------------------------------------------
(* Date decoding and the reporting interval *)

\* daily record: (d.date as Timestamp).seconds ? new Date(seconds * 1000)
\*                                             : new Date(d.date as string)
\* Reading .seconds of an absent date raises a TypeError.
decodeDailyDate(raw) ==
  CASE raw.t = "missing" -> [outcome |-> "throw", date |-> Date(0, 0, 0)]
    [] raw.t = "junk"    -> [outcome |-> "invalid", date |-> Date(0, 0, 0)]
    [] OTHER             -> [outcome |-> "ok", date |-> Date(raw.y, raw.m, raw.d)]

\* service record: sData.date?.seconds ? new Date(seconds * 1000)
\*                                     : parseISO(sData.date)
\* parseISO(undefined) is an Invalid Date in date-fns 2 and a TypeError in
\* date-fns 3 and later; strict tells which library the build carries.
decodeServiceDate(raw, strict) ==
  CASE raw.t = "missing" ->
         [outcome |-> IF strict THEN "throw" ELSE "invalid", date |-> Date(0, 0, 0)]
    [] raw.t = "junk"    -> [outcome |-> "invalid", date |-> Date(0, 0, 0)]
    [] OTHER             -> [outcome |-> "ok", date |-> Date(raw.y, raw.m, raw.d)]

\* the interval of fetchSummaryData, at day granularity
interval(view, year, month, quarter) ==
  CASE view = "month" ->
         [start |-> Date(year, month, 1),
          end   |-> Date(year, month, daysInMonth(year, month))]
    [] view = "quarter" ->
         [start |-> Date(year, quarter * 3, 1),
          end   |-> Date(year, quarter * 3 + 2, daysInMonth(year, quarter * 3 + 2))]
    [] OTHER ->
         [start |-> Date(year, 0, 1), end |-> Date(year, 11, 31)]

\* isWithinInterval(date, interval); an Invalid Date is in no interval
isWithinInterval(dec, iv) ==
  /\ dec.outcome = "ok"
  /\ dayOrdinal(iv.start) <= dayOrdinal(dec.date)
  /\ dayOrdinal(dec.date) <= dayOrdinal(iv.end)

-----------------------------------------------------------------------------
(* Vehicles *)

\* snapshot.docs.map(doc => ({label: doc.data().name || 'Unnamed', value: doc.id}))
\* behind the 'All Units' entry
vehicleList(docs) ==
  << [label |-> "All Units", value |-> "all"] >> \o
  [i \in 1..Len(docs) |->
     [label |-> IF docs[i].name = "" THEN "Unnamed" ELSE docs[i].name,
      value |-> docs[i].id]]

\* availableVehicles.filter(v => v.value !== 'all')
vehiclesToCheck(av) == SelectSeq(av, LAMBDA v : v.value # "all")

\* availableVehicles.find(v => v.value === id)?.label || 'Unknown'
vehicleLabel(av, id) ==
  LET hits == { i \in 1..Len(av) : av[i].value = id }
  IN IF hits = {} THEN "Unknown"
     ELSE av[CHOOSE i \in hits : \A j \in hits : i <= j].label

-----------------------------------------------------------------------------
(* 1. Daily finances *)

\* the documents the finance query returns
qFinances(fin, vf) ==
  IF vf = "all" THEN fin ELSE SelectSeq(fin, LAMBDA d : d.vehicleId = vf)

\* the expense lines of one daily record, folded from the left
RECURSIVE expAmtFrom(_, _, _, _)
expAmtFrom(expenses, i, inc, sum) ==
  IF i > Len(expenses) THEN sum
  ELSE IF isAmortizationText(expenses[i].category) /\ ~inc
       THEN expAmtFrom(expenses, i + 1, inc, sum)
       ELSE expAmtFrom(expenses, i + 1, inc,
                       Plus(sum, NumberOrZero(expenses[i].amount)))

\* faulty variant: the amortization lines are added whatever the toggle says
expAmtKeepingAmortization(expenses, inc) == expAmtFrom(expenses, 1, TRUE, Num(0))

expAmt(expenses, inc) == expAmtFrom(expenses, 1, inc, Num(0))

\* if (!detailTracker[groupKey]) detailTracker[groupKey] = {income: 0, expenses: 0}
withGroup(tracker, groupKey) ==
  IF groupKey \in DOMAIN tracker THEN tracker
  ELSE tracker @@ (groupKey :> [income |-> Num(0), expenses |-> Num(0)])

\* the group key of a record dated dt of vehicle id
groupKeyOf(view, av, id, dt) ==
  IF view = "month" THEN vehicleLabel(av, id) ELSE months[dt.m + 1]

\* recordsTracker / dayOffTracker update of one daily record
trackDay(acc, d, dayNum) ==
  IF d.vehicleId \notin DOMAIN acc.recordsTracker THEN acc
  ELSE IF d.isDayOff
       THEN [acc EXCEPT !.dayOffTracker[d.vehicleId] = @ \cup {dayNum}]
       ELSE [acc EXCEPT !.recordsTracker[d.vehicleId] = @ \cup {dayNum}]

\* the amounts of one in-interval daily record added to the accumulators
addDaily(acc, d, dt, c) ==
  LET groupKey == groupKeyOf(c.view, c.av, d.vehicleId, dt)
      incAmt == NumberOrZero(d.sales)
      exp == expAmt(d.expenses, c.inc)
      t == withGroup(acc.detailTracker, groupKey)
  IN [acc EXCEPT
        !.totalInc = Plus(@, incAmt),
        !.totalExp = Plus(@, exp),
        !.detailTracker =
           [t EXCEPT ![groupKey] = [income   |-> Plus(t[groupKey].income, incAmt),
                                    expenses |-> Plus(t[groupKey].expenses, exp)]],
        !.tempLogs = Append(@,
           [date |-> dt, vehicleId |-> d.vehicleId,
            vehicleLabel |-> vehicleLabel(c.av, d.vehicleId), type |-> "Daily",
            income |-> incAmt, expenses |-> exp,
            description |-> IF d.isDayOff THEN "Day Off" ELSE "Daily Sales"])]

\* the body of financeSnap.forEach for one document
financeDoc(acc, d, c) ==
  LET dec == decodeDailyDate(d.date)
  IN IF acc.threw THEN acc
     ELSE IF dec.outcome = "throw" THEN [acc EXCEPT !.threw = TRUE]
     ELSE IF ~isWithinInterval(dec, c.interval) THEN acc
     ELSE addDaily(trackDay(acc, d, dec.date.d), d, dec.date, c)

RECURSIVE financeLoop(_, _, _, _)
financeLoop(docs, i, acc, c) ==
  IF i > Len(docs) THEN acc
  ELSE financeLoop(docs, i + 1, financeDoc(acc, docs[i], c), c)

-----------------------------------------------------------------------------
(* 2. Service history *)

\* faulty variant: the cost reaches the group and the log but not totalExp
addServiceGroupOnly(acc, sData, vId, dt, c) ==
  LET groupKey == groupKeyOf(c.view, c.av, vId, dt)
      t == withGroup(acc.detailTracker, groupKey)
      cost == NumberOrZero(sData.cost)
  IN IF isAmortizationText(sData.description) /\ ~c.inc
     THEN [acc EXCEPT !.detailTracker = t]
     ELSE [acc EXCEPT
             !.detailTracker =
                [t EXCEPT ![groupKey] = [income   |-> t[groupKey].income,
                                         expenses |-> Plus(t[groupKey].expenses, cost)]],
             !.tempLogs = Append(@,
                [date |-> dt, vehicleId |-> vId,
                 vehicleLabel |-> vehicleLabel(c.av, vId), type |-> "Service",
                 income |-> Num(0), expenses |-> cost,
                 description |-> IF sData.description = "" THEN "Repair/Service"
                                 ELSE sData.description])]

\* the cost of one in-interval service entry added to the accumulators
addService(acc, sData, vId, dt, c) ==
  LET groupKey == groupKeyOf(c.view, c.av, vId, dt)
      t == withGroup(acc.detailTracker, groupKey)
      cost == NumberOrZero(sData.cost)
  IN IF isAmortizationText(sData.description) /\ ~c.inc
     THEN [acc EXCEPT !.detailTracker = t]
     ELSE [acc EXCEPT
             !.totalExp = Plus(@, cost),
             !.detailTracker =
                [t EXCEPT ![groupKey] = [income   |-> t[groupKey].income,
                                         expenses |-> Plus(t[groupKey].expenses, cost)]],
             !.tempLogs = Append(@,
                [date |-> dt, vehicleId |-> vId,
                 vehicleLabel |-> vehicleLabel(c.av, vId), type |-> "Service",
                 income |-> Num(0), expenses |-> cost,
                 description |-> IF sData.description = "" THEN "Repair/Service"
                                 ELSE sData.description])]

\* the body of sSnap.forEach for one document of vehicle vId
serviceDoc(acc, sData, vId, c) ==
  LET dec == decodeServiceDate(sData.date, c.strict)
  IN IF acc.threw THEN acc
     ELSE IF dec.outcome = "throw" THEN [acc EXCEPT !.threw = TRUE]
     ELSE IF ~isWithinInterval(dec, c.interval) THEN acc
     ELSE addService(acc, sData, vId, dec.date, c)

RECURSIVE serviceDocs(_, _, _, _, _)
serviceDocs(docs, i, acc, vId, c) ==
  IF i > Len(docs) THEN acc
  ELSE serviceDocs(docs, i + 1, serviceDoc(acc, docs[i], vId, c), vId, c)

\* vehicleFilter === 'all' ? vehiclesToCheck.map(v => v.value) : [vehicleFilter]
serviceVehicleIds(av, vf) ==
  IF vf = "all"
  THEN [i \in 1..Len(vehiclesToCheck(av)) |-> vehiclesToCheck(av)[i].value]
  ELSE << vf >>

RECURSIVE serviceLoop(_, _, _, _, _)
serviceLoop(vIds, k, acc, svc, c) ==
  IF k > Len(vIds) THEN acc
  ELSE serviceLoop(vIds, k + 1,
                   serviceDocs(IF vIds[k] \in DOMAIN svc THEN svc[vIds[k]] ELSE << >>,
                               1, acc, vIds[k], c),
                   svc, c)

-----------------------------------------------------------------------------
(* 3. Missing days *)

isCurrentMonthSelection(month, year, nowv) == month = nowv.m /\ year = nowv.y

\* faulty variant: the current month is checked to its end like any other
lastDayToCheckWholeMonth(month, year, nowv, iv) == iv.end.d

lastDayToCheck(month, year, nowv, iv) ==
  IF isCurrentMonthSelection(month, year, nowv) THEN nowv.d ELSE iv.end.d

\* faulty variant: a vehicle without any sales record has no missing day
isMissingDayOnceLogged(i, rec, off) == rec # {} /\ i \notin rec /\ i \notin off

\* whether day i of the month counts as missing for a vehicle
isMissingDay(i, rec, off) == i \notin rec /\ i \notin off

\* for (let i = 1; i <= lastDayToCheck; i++) if (...) missing.push(i)
RECURSIVE missingFrom(_, _, _, _, _)
missingFrom(i, last, rec, off, missing) ==
  IF i > last THEN missing
  ELSE missingFrom(i + 1, last, rec, off,
                   IF isMissingDay(i, rec, off) THEN Append(missing, i) ELSE missing)

\* gaps[key] = missing
setGap(gaps, key, missing) ==
  IF key \in DOMAIN gaps THEN [gaps EXCEPT ![key] = missing]
  ELSE gaps @@ (key :> missing)

\* the key under which the missing days of vehicle v are reported
gapKey(v) == v.label

\* the body of vehiclesToCheck.forEach for one vehicle
gapOfVehicle(gaps, v, acc, vf, last) ==
  IF vf # "all" /\ v.value # vf THEN gaps
  ELSE LET missing == missingFrom(1, last, acc.recordsTracker[v.value],
                                  acc.dayOffTracker[v.value], << >>)
       IN IF Len(missing) > 0 THEN setGap(gaps, gapKey(v), missing) ELSE gaps

RECURSIVE gapsLoop(_, _, _, _, _, _)
gapsLoop(vs, k, gaps, acc, vf, last) ==
  IF k > Len(vs) THEN gaps
  ELSE gapsLoop(vs, k + 1, gapOfVehicle(gaps, vs[k], acc, vf, last), acc, vf, last)

EmptyMap == [k \in {} |-> 0]

-----------------------------------------------------------------------------
(* fetchSummaryData as a function of what it reads *)

\* in: [av, vf, view, year, month, quarter, inc, now, fin, svc, strict]
fetchSummaryData(in) ==
  IF Len(in.av) = 0 THEN [status |-> "skipped"]
  ELSE
    LET iv == interval(in.view, in.year, in.month, in.quarter)
        c == [av |-> in.av, view |-> in.view, inc |-> in.inc, interval |-> iv,
              strict |-> in.strict]
        tracked == { vehiclesToCheck(in.av)[i].value :
                       i \in 1..Len(vehiclesToCheck(in.av)) }
        acc0 == [totalInc |-> Num(0), totalExp |-> Num(0),
                 detailTracker |-> EmptyMap, tempLogs |-> << >>,
                 recordsTracker |-> [v \in tracked |-> {}],
                 dayOffTracker |-> [v \in tracked |-> {}],
                 threw |-> FALSE]
        acc1 == financeLoop(qFinances(in.fin, in.vf), 1, acc0, c)
        acc2 == serviceLoop(serviceVehicleIds(in.av, in.vf), 1, acc1, in.svc, c)
        gaps == IF in.view = "month"
                THEN gapsLoop(vehiclesToCheck(in.av), 1, EmptyMap, acc2, in.vf,
                              lastDayToCheck(in.month, in.year, in.now, iv))
                ELSE EmptyMap
    IN IF acc2.threw THEN [status |-> "threw"]
       ELSE [status |-> "ok",
             data |-> [income |-> acc2.totalInc, expenses |-> acc2.totalExp,
                       net |-> Minus(acc2.totalInc, acc2.totalExp)],
             details |-> acc2.detailTracker,
             rawLogs |-> acc2.tempLogs,
             missingDays |-> gaps]

\* what a run started from the given filter values reads
RunInput(av, vf, view, year, month, quarter, inc) ==
  [av |-> av, vf |-> vf, view |-> view, year |-> year, month |-> month,
   quarter |-> quarter, inc |-> inc, now |-> now, fin |-> finances,
   svc |-> serviceHistory, strict |-> parseISOThrows]

\* the state updates of one run: setDetails, setRawLogs, setData,
\* setMissingDays on success; the catch and finally blocks otherwise
Publish(r) ==
  /\ lastRun' = r.status
  /\ IF r.status = "ok"
     THEN /\ data' = r.data
          /\ details' = r.details
          /\ rawLogs' = r.rawLogs
          /\ missingDays' = r.missingDays
     ELSE UNCHANGED << data, details, rawLogs, missingDays >>
  /\ loading' = IF r.status = "skipped" THEN loading ELSE FALSE

-----------------------------------------------------------------------------
(* The documents the model draws the database from *)

Line(category, amount) == [category |-> category, amount |-> amount]

Daily(vehicleId, date, sales, isDayOff, expenses) ==
  [kind |-> "daily", vId |-> vehicleId,
   doc |-> [vehicleId |-> vehicleId, date |-> date, sales |-> sales,
            isDayOff |-> isDayOff, expenses |-> expenses]]

\* a service entry as stored, with its isAmortization flag
ServiceFlagged(vId, date, description, cost, isAmortization) ==
  [kind |-> "service", vId |-> vId,
   doc |-> [date |-> date, description |-> description, cost |-> cost,
            isAmortization |-> isAmortization]]

\* a service entry as addOrUpdateService writes it:
\* isAmortization = desc.toLowerCase().includes('amortization')
Service(vId, date, description, cost) ==
  ServiceFlagged(vId, date, description, cost, isAmortizationText(description))

\* records that differ in vehicle, day, month, year and day-off flag
GapDocs ==
  { Daily("v1", Iso(2025, 2, 1), RNum(1000), FALSE, << >>),
    Daily("v1", Iso(2025, 2, 2), RNum(500), FALSE, << >>),
    Daily("v1", Iso(2025, 2, 3), RNum(0), TRUE, << >>),
    Daily("v2", Iso(2025, 2, 1), RNum(0), TRUE, << >>),
    Daily("v1", Ts(2025, 1, 28), RNum(300), FALSE, << >>),
    Daily("v1", Iso(2026, 2, 1), RNum(100), FALSE, << >>) }

\* records that differ in amounts, expense lines and amortization texts;
\* the first two share (vehicleId, date), "v9" is no vehicle of the fleet
AmountDocs ==
  { Daily("v1", Iso(2025, 2, 1), RNum(1000), FALSE,
          << Line("Gas", RNum(200)), Line("Amortization", RNum(300)) >>),
    Daily("v1", Iso(2025, 2, 1), RNum(500), FALSE, << >>),
    Daily("v2", Iso(2025, 2, 2), RJunk, FALSE, << >>),
    Daily("v2", Iso(2025, 2, 3), RMissing, FALSE,
          << Line("AMORTIZATION FEE", RNum(0)) >>),
    Daily("v9", Iso(2025, 1, 10), RNum(100), FALSE, << Line("Gas", RJunk) >>),
    Service("v1", Iso(2025, 2, 2), "Amortization payment", RNum(1500)),
    Service("v2", Ts(2025, 1, 10), "Oil change", RNum(250)),
    Service("v1", Iso(2025, 2, 4), "", RMissing) }

\* records with absent and unparseable dates beside well-formed ones
DateDocs ==
  { Daily("v1", DateMissing, RNum(100), FALSE, << >>),
    Daily("v1", DateJunk, RNum(100), FALSE, << >>),
    Daily("v2", Iso(2025, 2, 1), RNum(1000), FALSE, << Line("Gas", RNum(200)) >>),
    Service("v1", DateMissing, "Oil change", RNum(50)),
    Service("v1", DateJunk, "Oil change", RNum(60)),
    Service("v2", Iso(2025, 2, 2), "Oil change", RNum(70)) }

\* the fleets: two named vehicles, or two vehicles saved without a name
Fleets ==
  { << [id |-> "v1", name |-> "J1"], [id |-> "v2", name |-> "J2"] >>,
    << [id |-> "v1", name |-> ""], [id |-> "v2", name |-> ""] >> }

\* the years of the year menu and the months and quarters of the menus that
\* the model selects
SelectableYears == { 2025, 2026 }
SelectableMonths == { 1, 2 }
SelectableQuarters == { 0, 1 }

SeqsUpTo(S, n) == UNION { [1..k -> S] : k \in 0..n }

\* selectedVehicle before a vehicle is chosen: null
NoVehicle == [id |-> "null", name |-> ""]

\* the AsyncStorage item before the first SAVE & SYNC: null
\* no call of handleLogin is in flight
NoLogin == [pc |-> "idle"]

NoConfig == [saved |-> FALSE, selectedDays |-> << >>, isReminderActive |-> FALSE]

\* chartData before the first report: null, shown as a chart without labels
NullChart == [labels |-> << >>, income |-> << >>, expenses |-> << >>]

-----------------------------------------------------------------------------
(* Initial states: the screens as constructed, over a given database *)

\* the database and the clock
InitDb(universe, nowChoices, strictChoices) ==
  /\ vehicleDocs \in Fleets
  /\ \E recs \in SeqsUpTo(universe, MaxDocs) :
       /\ finances =
            [i \in 1..Len(SelectSeq(recs, LAMBDA r : r.kind = "daily")) |->
               SelectSeq(recs, LAMBDA r : r.kind = "daily")[i].doc]
       /\ serviceHistory =
            [id \in {"v1", "v2"} |->
               [i \in 1..Len(SelectSeq(recs,
                               LAMBDA r : r.kind = "service" /\ r.vId = id)) |->
                  SelectSeq(recs,
                    LAMBDA r : r.kind = "service" /\ r.vId = id)[i].doc]]
  /\ now \in nowChoices
  /\ parseISOThrows \in strictChoices

\* the screens as constructed
InitScreens ==
  /\ availableVehicles = << >>
  /\ vehicleFilter = "all"
  /\ selectedYear = now.y
  /\ summaryView = "month"
  /\ includeAmortization = TRUE
  /\ selectedMonth = now.m
  /\ selectedQuarter = now.m \div 3
  /\ data = [income |-> Num(0), expenses |-> Num(0), net |-> Num(0)]
  /\ details = EmptyMap
  /\ rawLogs = << >>
  /\ missingDays = EmptyMap
  /\ loading = TRUE
  /\ lastRun = "none"
  /\ drillDownLogs = << >>
  /\ drillDownTitle = ""
  /\ drillDownVisible = FALSE
  /\ inFlight = << >>
  /\ reportView = "month"
  /\ reportSelectedYear = now.y
  /\ reportSelectedQuarter = now.m \div 3
  /\ reportVehicleFilter = "all"
  /\ reportIncludeAmortization = TRUE
  /\ reportAvailableVehicles = << >>
  /\ chartData = NullChart
  /\ lastReportRun = "none"
  /\ vehicles = << >>
  /\ selectedVehicle = NoVehicle
  /\ weekStart = startOfWeek(now)
  /\ records = EmptyMap
  /\ loads = << >>
  /\ loadedFor = [vehicle |-> NoVehicle, weekStart |-> weekStart]
  /\ reminderVehicles = << >>
  /\ selectedDays = << >>
  /\ isReminderActive = FALSE
  /\ storedConfig = NoConfig
  /\ scheduled = EmptyBag
  /\ syncRuns = << >>
  /\ isSharing = FALSE
  /\ taskRunning = FALSE
  /\ drivers = EmptyMap
  /\ toggles = << >>
  /\ undelivered = FALSE
  /\ dateNow = 1

\* the app opens on AuthScreen, nobody signed in and nothing stored
InitSignedOut ==
  /\ currentUser = "null"
  /\ storedRole = "null"
  /\ route = "index"
  /\ login = NoLogin
  /\ role = "null"
  /\ isLoading = TRUE
  /\ driverTab = "unmounted"

InitOver(universe, nowChoices, strictChoices) ==
  InitDb(universe, nowChoices, strictChoices) /\ InitScreens /\ InitSignedOut

Init == InitOver(AmountDocs, {Date(2025, 2, 5)}, {FALSE})
InitGap == InitOver(GapDocs, {Date(2025, 2, 2), Date(2025, 2, 5)}, {FALSE})
InitDate == InitOver(DateDocs, {Date(2025, 2, 5)}, BOOLEAN)

-----------------------------------------------------------------------------
(* Handlers.  A state setter that changes a dependency of fetchSummaryData   *)
(* re-creates the callback, and the effect then runs it; the run is taken    *)
(* to complete before the next handler.                                      *)

db == << vehicleDocs, finances, serviceHistory, now, parseISOThrows >>

\* the drill-down modal
drillDown == << drillDownLogs, drillDownTitle, drillDownVisible >>

\* the states of ReportsScreen
reportScreen ==
  << reportView, reportSelectedYear, reportSelectedQuarter,
     reportVehicleFilter, reportIncludeAmortization, reportAvailableVehicles,
     chartData, lastReportRun >>

\* the states of the weekly log editor
editor == << vehicles, selectedVehicle, weekStart, records >>

\* the calls of loadWeeklyData in flight
weekLoads == << loads, loadedFor >>

\* the states of GapRemindersScreen, its stored configuration and the
\* notifications it schedules
reminders ==
  << reminderVehicles, selectedDays, isReminderActive, storedConfig,
     scheduled, syncRuns >>

\* the signed-in user, the stored role and the states of AuthScreen and
\* TabLayout
session ==
  << currentUser, storedRole, route, login, role, isLoading, driverTab >>

\* the states of DriverScreen, the location task and the driver records
driver == << isSharing, taskRunning, drivers, toggles, undelivered, dateNow >>

\* the states of the screens modelled further below
laterScreens == << weekLoads, reminders, session, driver >>

\* the states of the screens other than HomeScreen
otherScreens == << reportScreen, editor, laterScreens >>

\* onSnapshot of 'vehicles': setAvailableVehicles, then the effect
OnVehiclesSnapshot ==
  /\ availableVehicles = << >>
  /\ availableVehicles' = vehicleList(vehicleDocs)
  /\ \E r \in { fetchSummaryData(RunInput(availableVehicles', vehicleFilter,
       summaryView, selectedYear, selectedMonth, selectedQuarter,
       includeAmortization)) } :
         Publish(r)
  /\ UNCHANGED << db, otherScreens, drillDown, inFlight, vehicleFilter, selectedYear, summaryView,
                  includeAmortization, selectedMonth, selectedQuarter >>

\* SegmentedButtons onValueChange={setVehicleFilter}
SetVehicleFilter ==
  \E i \in 1..Len(availableVehicles) :
    /\ availableVehicles[i].value # vehicleFilter
    /\ vehicleFilter' = availableVehicles[i].value
    /\ \E r \in { fetchSummaryData(RunInput(availableVehicles, vehicleFilter',
         summaryView, selectedYear, selectedMonth, selectedQuarter,
         includeAmortization)) } :
         Publish(r)
    /\ UNCHANGED << db, otherScreens, drillDown, inFlight, availableVehicles, selectedYear, summaryView,
                    includeAmortization, selectedMonth, selectedQuarter >>

\* SegmentedButtons onValueChange={setSummaryView}
SetSummaryView ==
  \E view \in {"month", "quarter", "year"} :
    /\ view # summaryView
    /\ summaryView' = view
    /\ \E r \in { fetchSummaryData(RunInput(availableVehicles, vehicleFilter,
         summaryView', selectedYear, selectedMonth, selectedQuarter,
         includeAmortization)) } :
         Publish(r)
    /\ UNCHANGED << db, otherScreens, drillDown, inFlight, availableVehicles, vehicleFilter, selectedYear,
                    includeAmortization, selectedMonth, selectedQuarter >>

\* year menu: setSelectedYear(y)
SetSelectedYear ==
  \E y \in SelectableYears :
    /\ y # selectedYear
    /\ selectedYear' = y
    /\ \E r \in { fetchSummaryData(RunInput(availableVehicles, vehicleFilter,
         summaryView, selectedYear', selectedMonth, selectedQuarter,
         includeAmortization)) } :
         Publish(r)
    /\ UNCHANGED << db, otherScreens, drillDown, inFlight, availableVehicles, vehicleFilter, summaryView,
                    includeAmortization, selectedMonth, selectedQuarter >>

\* month menu (shown in month view): setSelectedMonth(i)
SetSelectedMonth ==
  \E m \in SelectableMonths :
    /\ summaryView = "month"
    /\ m # selectedMonth
    /\ selectedMonth' = m
    /\ \E r \in { fetchSummaryData(RunInput(availableVehicles, vehicleFilter,
         summaryView, selectedYear, selectedMonth', selectedQuarter,
         includeAmortization)) } :
         Publish(r)
    /\ UNCHANGED << db, otherScreens, drillDown, inFlight, availableVehicles, vehicleFilter, selectedYear,
                    summaryView, includeAmortization, selectedQuarter >>

\* quarter menu (shown in quarter view): setSelectedQuarter(q.value)
SetSelectedQuarter ==
  \E q \in SelectableQuarters :
    /\ summaryView = "quarter"
    /\ q # selectedQuarter
    /\ selectedQuarter' = q
    /\ \E r \in { fetchSummaryData(RunInput(availableVehicles, vehicleFilter,
         summaryView, selectedYear, selectedMonth, selectedQuarter',
         includeAmortization)) } :
         Publish(r)
    /\ UNCHANGED << db, otherScreens, drillDown, inFlight, availableVehicles, vehicleFilter, selectedYear,
                    summaryView, includeAmortization, selectedMonth >>

\* Checkbox onPress: setIncludeAmortization(!includeAmortization)
ToggleIncludeAmortization ==
  /\ includeAmortization' = ~includeAmortization
  /\ \E r \in { fetchSummaryData(RunInput(availableVehicles, vehicleFilter,
       summaryView, selectedYear, selectedMonth, selectedQuarter,
       includeAmortization')) } :
         Publish(r)
  /\ UNCHANGED << db, otherScreens, drillDown, inFlight, availableVehicles, vehicleFilter, selectedYear,
                  summaryView, selectedMonth, selectedQuarter >>

\* RefreshControl onRefresh: setRefreshing(true); fetchSummaryData()
OnRefresh ==
  /\ \E r \in { fetchSummaryData(RunInput(availableVehicles, vehicleFilter,
       summaryView, selectedYear, selectedMonth, selectedQuarter,
       includeAmortization)) } :
         Publish(r)
  /\ UNCHANGED << db, otherScreens, drillDown, inFlight, availableVehicles, vehicleFilter, selectedYear,
                  summaryView, includeAmortization, selectedMonth,
                  selectedQuarter >>

Next ==
  \/ OnVehiclesSnapshot
  \/ SetVehicleFilter
  \/ SetSummaryView
  \/ SetSelectedYear
  \/ SetSelectedMonth
  \/ SetSelectedQuarter
  \/ ToggleIncludeAmortization
  \/ OnRefresh

Spec == Init /\ [][Next]_vars
SpecGap == InitGap /\ [][Next]_vars
SpecDate == InitDate /\ [][Next]_vars

-----------------------------------------------------------------------------
(* Vocabulary of the properties: the records in scope of the current        *)
(* selection, stated over the database and not over the loops above          *)

\* the selected period
Period == interval(summaryView, selectedYear, selectedMonth, selectedQuarter)

\* the vehicles the screen tracks, and those the vehicle filter lets pass
Tracked == { i \in 1..Len(availableVehicles) : availableVehicles[i].value # "all" }
PassesFilter(id) == vehicleFilter = "all" \/ id = vehicleFilter
TrackedInFilter == { i \in Tracked : PassesFilter(availableVehicles[i].value) }

\* a raw date that names a calendar day
WellFormedDate(raw) == raw.t \in {"iso", "ts"}
InPeriod(raw) ==
  /\ WellFormedDate(raw)
  /\ dayOrdinal(Period.start) <= dayOrdinal(Date(raw.y, raw.m, raw.d))
  /\ dayOrdinal(Date(raw.y, raw.m, raw.d)) <= dayOrdinal(Period.end)

\* the daily records in scope (positions in the finances collection)
DailyInScope ==
  { i \in 1..Len(finances) :
      PassesFilter(finances[i].vehicleId) /\ InPeriod(finances[i].date) }

\* the service entries in scope (vehicle, position)
ServiceInScope ==
  UNION { { <<availableVehicles[i].value, j>> :
              j \in { j \in 1..Len(serviceHistory[availableVehicles[i].value]) :
                        InPeriod(serviceHistory[availableVehicles[i].value][j].date) } } :
          i \in TrackedInFilter }

\* the expense lines in scope (record position, line position)
LinesInScope ==
  UNION { { <<i, j>> : j \in 1..Len(finances[i].expenses) } : i \in DailyInScope }

\* the sum of f over a finite set
RECURSIVE SumFrom(_, _)
SumFrom(S, f) ==
  IF S = {} THEN Num(0)
  ELSE LET x == CHOOSE y \in S : TRUE
       IN Plus(f[x], SumFrom(S \ {x}, f))

SumOver(S, F(_)) == SumFrom(S, [x \in S |-> F(x)])

\* a <= b on JavaScript numbers: false when either is NaN
Le(a, b) == ~a.nan /\ ~b.nan /\ a.v <= b.v

\* what a run would publish for the current selection with the given toggle
RunWith(inc) ==
  fetchSummaryData(RunInput(availableVehicles, vehicleFilter, summaryView,
                            selectedYear, selectedMonth, selectedQuarter, inc))

-----------------------------------------------------------------------------
(* C1 *)

GroupIncome(k) == details[k].income
GroupExpenses(k) == details[k].expenses

\* C1 (conservation): the published totals.income is the sum of the incomes
\* of all groups of the published detail map, and totals.expenses the sum of
\* their expenses (two NaN sums count as the same value).
C1_Conservation ==
  /\ data.income = SumOver(DOMAIN details, GroupIncome)
  /\ data.expenses = SumOver(DOMAIN details, GroupExpenses)

\* a run has published two groups with expenses and a group with income
C1_Witness ==
  /\ lastRun = "ok"
  /\ Cardinality(DOMAIN details) >= 2
  /\ ~data.expenses.nan /\ ~data.income.nan
  /\ \A k \in DOMAIN details : details[k].expenses.v > 0
  /\ \E k \in DOMAIN details : details[k].income.v > 0

-----------------------------------------------------------------------------
(* C2 *)

LineAmount(p) == NumberOrZero(finances[p[1]].expenses[p[2]].amount)
ServiceCost(p) == NumberOrZero(serviceHistory[p[1]][p[2]].cost)

\* the in-scope expense lines and service entries classified as amortization
AmortLines ==
  { p \in LinesInScope : isAmortizationText(finances[p[1]].expenses[p[2]].category) }
AmortServices ==
  { p \in ServiceInScope : isAmortizationText(serviceHistory[p[1]][p[2]].description) }
AmortTotal == Plus(SumOver(AmortLines, LineAmount), SumOver(AmortServices, ServiceCost))

\* every in-scope amount is a number and is not negative
AmountsWellFormed ==
  /\ \A i \in DailyInScope : finances[i].sales.t # "junk" /\ finances[i].sales.v >= 0
  /\ \A p \in LinesInScope :
       LET a == finances[p[1]].expenses[p[2]].amount IN a.t # "junk" /\ a.v >= 0
  /\ \A p \in ServiceInScope :
       LET a == serviceHistory[p[1]][p[2]].cost IN a.t # "junk" /\ a.v >= 0

\* C2 as stated: expenses without amortization are at most expenses with
\* it, and the two are equal exactly when nothing in scope is classified as
\* amortization.
C2_AsStated ==
  lastRun = "ok" =>
    /\ Le(RunWith(FALSE).data.expenses, RunWith(TRUE).data.expenses)
    /\ (RunWith(FALSE).data.expenses = RunWith(TRUE).data.expenses
          <=> (AmortLines = {} /\ AmortServices = {}))

\* C2 (amended): the published expenses are those of the current toggle;
\* expenses with amortization are expenses without it plus the in-scope
\* amounts classified as amortization; so with well-formed amounts the
\* former are at least the latter, with equality exactly when those amounts
\* sum to zero.
C2_ToggleMonotone ==
  lastRun = "ok" =>
    /\ data.expenses = RunWith(includeAmortization).data.expenses
    /\ RunWith(TRUE).data.expenses = Plus(RunWith(FALSE).data.expenses, AmortTotal)
    /\ AmountsWellFormed =>
         /\ Le(RunWith(FALSE).data.expenses, RunWith(TRUE).data.expenses)
         /\ (RunWith(FALSE).data.expenses = RunWith(TRUE).data.expenses
               <=> AmortTotal = Num(0))

\* the toggle is off and the published expenses are below those with
\* amortization included
C2_Witness ==
  /\ lastRun = "ok"
  /\ ~includeAmortization
  /\ AmountsWellFormed
  /\ AmortTotal.v > 0
  /\ data.expenses.v < RunWith(TRUE).data.expenses.v

-----------------------------------------------------------------------------
(* Vocabulary of the gap report *)

\* the elements of a finite set of integers in ascending order
RECURSIVE Ascending(_)
Ascending(S) ==
  IF S = {} THEN << >>
  ELSE LET lo == CHOOSE x \in S : \A y \in S : x <= y
       IN << lo >> \o Ascending(S \ {lo})

\* whether the selection is the month the clock is in
SelectionIsCurrentMonth == selectedMonth = now.m /\ selectedYear = now.y

\* the last day the claims let the detector look at
LastDay ==
  IF SelectionIsCurrentMonth THEN now.d ELSE daysInMonth(selectedYear, selectedMonth)

\* vehicle id has a daily record (day off or not) dated day of the selected month
HasDailyRecord(id, day) ==
  \E i \in 1..Len(finances) :
    /\ finances[i].vehicleId = id
    /\ WellFormedDate(finances[i].date)
    /\ finances[i].date.y = selectedYear
    /\ finances[i].date.m = selectedMonth
    /\ finances[i].date.d = day

\* the days of 1..last without a daily record of vehicle id
DaysWithoutRecord(id, last) == { day \in 1..last : ~HasDailyRecord(id, day) }

\* the list the screen shows for the vehicle at position i: the entry under
\* its label, or no days when there is none
ReportedFor(i) ==
  IF availableVehicles[i].label \in DOMAIN missingDays
  THEN missingDays[availableVehicles[i].label]
  ELSE << >>

\* a month-mode run has published the current results
MonthRunPublished == lastRun = "ok" /\ summaryView = "month"

-----------------------------------------------------------------------------
(* C3 *)

\* C3: in month mode the list reported for each tracked vehicle passing the
\* filter is the ascending sequence of the days of 1..lastDayToCheck on
\* which it has no daily record.
C3_MissingDaysExact ==
  MonthRunPublished =>
    \A i \in TrackedInFilter :
      ReportedFor(i) = Ascending(DaysWithoutRecord(availableVehicles[i].value, LastDay))

-----------------------------------------------------------------------------
(* C4 *)

\* C4: a day on which a tracked vehicle has a day-off record never appears
\* in the list reported for that vehicle.
C4_DayOffNotMissing ==
  MonthRunPublished =>
    \A i \in TrackedInFilter : \A k \in 1..Len(finances) :
      ( /\ finances[k].vehicleId = availableVehicles[i].value
        /\ finances[k].isDayOff
        /\ InPeriod(finances[k].date) )
      => \A n \in 1..Len(ReportedFor(i)) : ReportedFor(i)[n] # finances[k].date.d

-----------------------------------------------------------------------------
(* C5 *)

\* C5: every reported day denotes a date that is not after the current date.
C5_NoFutureDay ==
  MonthRunPublished =>
    \A key \in DOMAIN missingDays : \A n \in 1..Len(missingDays[key]) :
      dayOrdinal(Date(selectedYear, selectedMonth, missingDays[key][n]))
        <= dayOrdinal(now)

-----------------------------------------------------------------------------
(* C6 *)

\* C6 (gap boundary): when the selection is the month of now, no reported
\* day exceeds now's day of month; otherwise days are checked up to the
\* last day of the selected month.  Every reported list is the list of
\* the days of 1..LastDay without a record of some vehicle shown under
\* that label, and every vehicle in the filter lacking a record on a day
\* of 1..LastDay has an entry under its label.
C6_GapBoundary ==
  MonthRunPublished =>
    /\ \A key \in DOMAIN missingDays : \A n \in 1..Len(missingDays[key]) :
         missingDays[key][n] \in 1..LastDay
    /\ \A key \in DOMAIN missingDays :
         \E i \in TrackedInFilter :
           /\ availableVehicles[i].label = key
           /\ missingDays[key] =
                Ascending(DaysWithoutRecord(availableVehicles[i].value, LastDay))
    /\ \A i \in TrackedInFilter :
         DaysWithoutRecord(availableVehicles[i].value, LastDay) # {}
           => availableVehicles[i].label \in DOMAIN missingDays

\* the current month is selected, a vehicle has records after today, and
\* its list ends at today
C6_Witness ==
  /\ MonthRunPublished
  /\ SelectionIsCurrentMonth
  /\ \E key \in DOMAIN missingDays :
       missingDays[key][Len(missingDays[key])] = now.d

\* a month other than the current one is selected and a list runs to its
\* last day
C6_WitnessPast ==
  /\ MonthRunPublished
  /\ ~SelectionIsCurrentMonth
  /\ \E key \in DOMAIN missingDays :
       missingDays[key][Len(missingDays[key])] = daysInMonth(selectedYear, selectedMonth)

-----------------------------------------------------------------------------
(* C7 *)

\* the tracked vehicles in the filter with at least one missing day
WithMissingDays ==
  { i \in TrackedInFilter :
      DaysWithoutRecord(availableVehicles[i].value, LastDay) # {} }

\* C7: the report has one entry for each tracked vehicle in the filter with
\* a missing day, holding that vehicle's days, and none for the others.
C7_EntryPerVehicle ==
  MonthRunPublished =>
    /\ Cardinality(DOMAIN missingDays) = Cardinality(WithMissingDays)
    /\ \A i \in WithMissingDays :
         ReportedFor(i) = Ascending(DaysWithoutRecord(availableVehicles[i].value, LastDay))
    /\ \A i \in TrackedInFilter \ WithMissingDays : ReportedFor(i) = << >>

-----------------------------------------------------------------------------
(* Vocabulary of the amount properties *)

\* an amount as the specification wants it read: 0 unless it is a number
WellFormedAmount(x) == IF x.t = "num" THEN Num(x.v) ELSE Num(0)

\* the expense lines and service entries the current toggle counts
CountedLines ==
  { p \in LinesInScope :
      includeAmortization
        \/ ~isAmortizationText(finances[p[1]].expenses[p[2]].category) }
CountedServices ==
  { p \in ServiceInScope :
      includeAmortization
        \/ ~isAmortizationText(serviceHistory[p[1]][p[2]].description) }

SalesOf(i) == WellFormedAmount(finances[i].sales)
LineOf(p) == WellFormedAmount(finances[p[1]].expenses[p[2]].amount)
CostOf(p) == WellFormedAmount(serviceHistory[p[1]][p[2]].cost)

-----------------------------------------------------------------------------
(* C8 *)

\* the daily record at position i is the last one in scope of its
\* (vehicleId, date)
LastOfItsDay(i) ==
  ~ \E j \in DailyInScope :
      /\ j > i
      /\ finances[j].vehicleId = finances[i].vehicleId
      /\ finances[j].date.y = finances[i].date.y
      /\ finances[j].date.m = finances[i].date.m
      /\ finances[j].date.d = finances[i].date.d

LastDaily == { i \in DailyInScope : LastOfItsDay(i) }

SalesRead(i) == NumberOrZero(finances[i].sales)

\* C8: of several daily records of one (vehicleId, date) only the last one
\* is counted in the totals.
C8_LastDuplicateWins ==
  lastRun = "ok" =>
    /\ data.income = SumOver(LastDaily, SalesRead)
    /\ data.expenses =
         Plus(SumOver({ p \in CountedLines : p[1] \in LastDaily }, LineAmount),
              SumOver(CountedServices, ServiceCost))

-----------------------------------------------------------------------------
(* C9 *)

\* the database without the records whose date is absent or is no date
WellDatedFinances == SelectSeq(finances, LAMBDA d : WellFormedDate(d.date))
WellDatedServices ==
  [id \in DOMAIN serviceHistory |->
     SelectSeq(serviceHistory[id], LAMBDA s : WellFormedDate(s.date))]

\* what a run over the well-dated records publishes for the current selection
WellDatedRun ==
  fetchSummaryData(
    [RunInput(availableVehicles, vehicleFilter, summaryView, selectedYear,
              selectedMonth, selectedQuarter, includeAmortization)
       EXCEPT !.fin = WellDatedFinances, !.svc = WellDatedServices])

\* C9: once the vehicles are known, the latest run has published, and what
\* it published is the aggregation of the records with a well-formed date.
C9_MalformedDateDropped ==
  availableVehicles # << >> =>
    /\ lastRun = "ok"
    /\ data = WellDatedRun.data
    /\ details = WellDatedRun.details
    /\ rawLogs = WellDatedRun.rawLogs
    /\ missingDays = WellDatedRun.missingDays

-----------------------------------------------------------------------------
(* C10 *)

\* C10: the published totals and group sums are numbers, and the totals
\* are the sums of the well-formed in-scope amounts.
C10_MalformedAmountIsZero ==
  lastRun = "ok" =>
    /\ ~data.income.nan /\ ~data.expenses.nan /\ ~data.net.nan
    /\ \A k \in DOMAIN details : ~details[k].income.nan /\ ~details[k].expenses.nan
    /\ data.income = SumOver(DailyInScope, SalesOf)
    /\ data.expenses =
         Plus(SumOver(CountedLines, LineOf), SumOver(CountedServices, CostOf))

-----------------------------------------------------------------------------
(* C11 *)

\* the daily-finance collection and every service-history collection are empty
EmptyInput ==
  /\ finances = << >>
  /\ \A id \in DOMAIN serviceHistory : serviceHistory[id] = << >>

ZeroTotals == [income |-> Num(0), expenses |-> Num(0), net |-> Num(0)]

\* the labels of the tracked vehicles that pass the vehicle filter
LabelsInFilter == { availableVehicles[i].label : i \in TrackedInFilter }

\* C11 as stated: on empty input a run publishes zero totals, an empty group
\* map and an empty gap report, in every view mode.
C11_AsStated ==
  (lastRun = "ok" /\ EmptyInput) =>
    /\ data = ZeroTotals
    /\ details = EmptyMap
    /\ missingDays = EmptyMap

\* C11 (amended): on empty input a run publishes zero totals, an empty group
\* map and no logs; the gap report is empty outside month mode, and in month
\* mode it lists every day of 1..lastDayToCheck under the label of each
\* tracked vehicle that passes the filter.
C11_EmptyInput ==
  (lastRun = "ok" /\ EmptyInput) =>
    /\ data = ZeroTotals
    /\ details = EmptyMap
    /\ rawLogs = << >>
    /\ summaryView # "month" => missingDays = EmptyMap
    /\ summaryView = "month" =>
         /\ DOMAIN missingDays = LabelsInFilter
         /\ \A key \in DOMAIN missingDays :
              missingDays[key] = [i \in 1..LastDay |-> i]

\* a month-mode run over empty collections has reported days for a vehicle
C11_Witness ==
  /\ lastRun = "ok"
  /\ EmptyInput
  /\ summaryView = "month"
  /\ TrackedInFilter # {}
  /\ DOMAIN missingDays # {}

-----------------------------------------------------------------------------
(* C12 *)

\* the instants at which the device clock is read
ClockReadings == { Date(2025, 2, 2), Date(2025, 2, 5) }

\* time passes on the device: new Date() yields a later day
ClockTick ==
  /\ \E later \in ClockReadings :
       /\ dayOrdinal(now) < dayOrdinal(later)
       /\ now' = later
  /\ UNCHANGED << vehicleDocs, finances, serviceHistory, parseISOThrows,
                  availableVehicles, vehicleFilter, selectedYear, summaryView,
                  includeAmortization, selectedMonth, selectedQuarter, data,
                  details, rawLogs, missingDays, loading, lastRun,
                  drillDown, inFlight, otherScreens >>

NextClock == Next \/ ClockTick

SpecClock == InitGap /\ [][NextClock]_vars

\* what the screen hands to a run: the records, the tracked vehicles and the
\* filter selection (fetchSummaryData takes no argument for the date)
CallerInputs ==
  << finances, serviceHistory, availableVehicles, vehicleFilter, summaryView,
     selectedYear, selectedMonth, selectedQuarter, includeAmortization >>

Outputs == << data, details, rawLogs, missingDays >>

\* C12: a run that follows a published run with the same records, tracked
\* vehicles and filter selection publishes the same totals, groups, logs
\* and gap report, whatever the device clock shows meanwhile.
C12_Deterministic ==
  [][ (lastRun = "ok" /\ lastRun' = "ok" /\ CallerInputs' = CallerInputs)
        => Outputs' = Outputs ]_vars

-----------------------------------------------------------------------------
(* Drill-down: handleDrillDown and the modal it opens *)

\* whether handleDrillDown keeps a log for the group key
inGroup(log, groupKey, view) ==
  IF view = "month" THEN log.vehicleLabel = groupKey
  ELSE months[log.date.m + 1] = groupKey

\* one log put in its place of a list sorted by date, most recent first;
\* logs of one day keep their order (Array.prototype.sort is stable)
RECURSIVE insertByDateDesc(_, _)
insertByDateDesc(sorted, log) ==
  IF sorted = << >> THEN << log >>
  ELSE IF dayOrdinal(Head(sorted).date) >= dayOrdinal(log.date)
       THEN << Head(sorted) >> \o insertByDateDesc(Tail(sorted), log)
       ELSE << log >> \o sorted

\* filtered.sort((a, b) => b.date.getTime() - a.date.getTime())
RECURSIVE sortByDateDesc(_)
sortByDateDesc(logs) ==
  IF logs = << >> THEN << >>
  ELSE insertByDateDesc(sortByDateDesc(SubSeq(logs, 1, Len(logs) - 1)),
                        logs[Len(logs)])

\* the logs handleDrillDown shows for a group key
handleDrillDown(groupKey, view, logs) ==
  sortByDateDesc(SelectSeq(logs, LAMBDA log : inGroup(log, groupKey, view)))

published == << data, details, rawLogs, missingDays, loading, lastRun >>

selection == << availableVehicles, vehicleFilter, selectedYear, summaryView,
                includeAmortization, selectedMonth, selectedQuarter >>

\* a row of the breakdown modal is pressed
HandleDrillDown ==
  /\ ~drillDownVisible
  /\ \E groupKey \in DOMAIN details :
       /\ drillDownLogs' = handleDrillDown(groupKey, summaryView, rawLogs)
       /\ drillDownTitle' = groupKey
  /\ drillDownVisible' = TRUE
  /\ UNCHANGED << db, otherScreens, selection, published, inFlight >>

\* the drill-down modal is dismissed (onDismiss, or its Back button)
DismissDrillDown ==
  /\ drillDownVisible
  /\ drillDownVisible' = FALSE
  /\ UNCHANGED << db, otherScreens, selection, published, inFlight, drillDownLogs,
                  drillDownTitle >>

NextDrill == Next \/ HandleDrillDown \/ DismissDrillDown

\* records with and without amortization, of two vehicles and two months
DrillDocs ==
  { Daily("v1", Iso(2025, 2, 1), RNum(1000), FALSE,
          << Line("Gas", RNum(200)), Line("Amortization", RNum(300)) >>),
    Daily("v2", Ts(2025, 1, 28), RNum(500), FALSE, << >>),
    Service("v1", Iso(2025, 2, 2), "Amortization payment", RNum(1500)),
    Service("v2", Iso(2025, 2, 4), "Oil change", RNum(250)) }

InitDrill == InitOver(DrillDocs, {Date(2025, 2, 5)}, {FALSE})

SpecDrill == InitDrill /\ [][NextDrill]_vars

-----------------------------------------------------------------------------
(* C13 *)

Income(log) == log.income
Expenses(log) == log.expenses

\* the sum of F over the entries of a sequence
SumSeq(seq, F(_)) == SumFrom(DOMAIN seq, [n \in DOMAIN seq |-> F(seq[n])])

\* the group keys under which handleDrillDown returns the log at position n
KeysOf(n) == { G \in DOMAIN details : inGroup(rawLogs[n], G, summaryView) }

\* the drill-down of a published run is being opened
DrillDownOpens == ~drillDownVisible /\ drillDownVisible' /\ lastRun = "ok"

\* C13: the events handleDrillDown returns for a group key have incomes
\* and expenses summing to the group's income and expenses.
C13_SumsMatch ==
  [][ DrillDownOpens =>
        /\ SumSeq(drillDownLogs', Income) = details[drillDownTitle'].income
        /\ SumSeq(drillDownLogs', Expenses) = details[drillDownTitle'].expenses
    ]_vars

\* C13: the sums match as above, and every in-scope event is returned for
\* exactly one group key.
C13_DrillDownConsistent ==
  [][ DrillDownOpens =>
        /\ SumSeq(drillDownLogs', Income) = details[drillDownTitle'].income
        /\ SumSeq(drillDownLogs', Expenses) = details[drillDownTitle'].expenses
        /\ Len(rawLogs) = Cardinality(DailyInScope) + Cardinality(ServiceInScope)
        /\ \A n \in 1..Len(rawLogs) : Cardinality(KeysOf(n)) = 1
    ]_vars

-----------------------------------------------------------------------------
(* Runs in flight.  fetchSummaryData awaits getDocs between reading the      *)
(* filter values of its closure and publishing; the effect that calls it has *)
(* no cleanup and the function no cancellation, so a handler may start a     *)
(* run while earlier ones still await, and the awaits resolve in any order.  *)
(* The handlers below are those of the view switch, the vehicle filter, the  *)
(* amortization checkbox and the refresh control; the year, month and        *)
(* quarter menus start their runs in the same way.                           *)

\* the call of fetchSummaryData up to its first await
BeginRun(in) ==
  /\ IF Len(in.av) = 0
     THEN /\ lastRun' = "skipped"
          /\ UNCHANGED << inFlight, loading >>
     ELSE /\ Len(inFlight) < MaxInFlight
          /\ inFlight' = Append(inFlight, in)
          /\ loading' = TRUE
          /\ UNCHANGED lastRun
  /\ UNCHANGED << data, details, rawLogs, missingDays >>

\* onSnapshot of 'vehicles': setAvailableVehicles, then the effect
OnVehiclesSnapshotAwait ==
  /\ availableVehicles = << >>
  /\ availableVehicles' = vehicleList(vehicleDocs)
  /\ BeginRun(RunInput(availableVehicles', vehicleFilter, summaryView,
                       selectedYear, selectedMonth, selectedQuarter,
                       includeAmortization))
  /\ UNCHANGED << db, otherScreens, drillDown, vehicleFilter, selectedYear, summaryView,
                  includeAmortization, selectedMonth, selectedQuarter >>

\* SegmentedButtons onValueChange={setVehicleFilter}
SetVehicleFilterAwait ==
  \E i \in 1..Len(availableVehicles) :
    /\ availableVehicles[i].value # vehicleFilter
    /\ vehicleFilter' = availableVehicles[i].value
    /\ BeginRun(RunInput(availableVehicles, vehicleFilter', summaryView,
                         selectedYear, selectedMonth, selectedQuarter,
                         includeAmortization))
    /\ UNCHANGED << db, otherScreens, drillDown, availableVehicles, selectedYear,
                    summaryView, includeAmortization, selectedMonth,
                    selectedQuarter >>

\* SegmentedButtons onValueChange={setSummaryView}
SetSummaryViewAwait ==
  \E view \in {"month", "quarter", "year"} :
    /\ view # summaryView
    /\ summaryView' = view
    /\ BeginRun(RunInput(availableVehicles, vehicleFilter, summaryView',
                         selectedYear, selectedMonth, selectedQuarter,
                         includeAmortization))
    /\ UNCHANGED << db, otherScreens, drillDown, availableVehicles, vehicleFilter,
                    selectedYear, includeAmortization, selectedMonth,
                    selectedQuarter >>

\* Checkbox onPress: setIncludeAmortization(!includeAmortization)
ToggleIncludeAmortizationAwait ==
  /\ includeAmortization' = ~includeAmortization
  /\ BeginRun(RunInput(availableVehicles, vehicleFilter, summaryView,
                       selectedYear, selectedMonth, selectedQuarter,
                       includeAmortization'))
  /\ UNCHANGED << db, otherScreens, drillDown, availableVehicles, vehicleFilter,
                  selectedYear, summaryView, selectedMonth, selectedQuarter >>

\* RefreshControl onRefresh: setRefreshing(true); fetchSummaryData()
OnRefreshAwait ==
  /\ BeginRun(RunInput(availableVehicles, vehicleFilter, summaryView,
                       selectedYear, selectedMonth, selectedQuarter,
                       includeAmortization))
  /\ UNCHANGED << db, otherScreens, drillDown, selection >>

\* the sequence without its k-th entry
RemoveAt(seq, k) == SubSeq(seq, 1, k - 1) \o SubSeq(seq, k + 1, Len(seq))

\* the awaits of one call resolve: the rest of fetchSummaryData runs and
\* publishes what it computed from the filter values it started with
FinishRun ==
  \E k \in 1..Len(inFlight) :
    /\ \E r \in { fetchSummaryData(inFlight[k]) } : Publish(r)
    /\ inFlight' = RemoveAt(inFlight, k)
    /\ UNCHANGED << db, otherScreens, drillDown, selection >>

NextAwait ==
  \/ OnVehiclesSnapshotAwait
  \/ SetVehicleFilterAwait
  \/ SetSummaryViewAwait
  \/ ToggleIncludeAmortizationAwait
  \/ OnRefreshAwait
  \/ FinishRun
  \/ HandleDrillDown
  \/ DismissDrillDown

\* a daily record with an amortization line and an amortization payment
AwaitDocs ==
  { Daily("v1", Iso(2025, 2, 1), RNum(1000), FALSE,
          << Line("Gas", RNum(200)), Line("Amortization", RNum(300)) >>),
    Service("v1", Iso(2025, 2, 2), "Amortization payment", RNum(1500)) }

InitAwait == InitOver(AwaitDocs, {Date(2025, 2, 5)}, {FALSE})

SpecAwait == InitAwait /\ [][NextAwait]_vars

-----------------------------------------------------------------------------
(* C14 *)

\* every run started has finished and the last one published
AllRunsFinished == inFlight = << >> /\ lastRun = "ok"

\* the published results are those of the current filter selection
PublishedIsLatest ==
  /\ data = RunWith(includeAmortization).data
  /\ details = RunWith(includeAmortization).details
  /\ rawLogs = RunWith(includeAmortization).rawLogs
  /\ missingDays = RunWith(includeAmortization).missingDays

\* C14: once all runs have finished, the published totals, groups, logs and
\* gap report are those computed for the latest filter selection; and a
\* drill-down that opens shows logs that sum to the group pressed, that is,
\* it pairs the logs of a run with the view mode of that run.
C14_StaleRunsDiscarded ==
  /\ [](AllRunsFinished => PublishedIsLatest)
  /\ [][ DrillDownOpens =>
           /\ SumSeq(drillDownLogs', Income) = details[drillDownTitle'].income
           /\ SumSeq(drillDownLogs', Expenses) = details[drillDownTitle'].expenses
       ]_vars

\* C14, first half only: the result of an earlier run never stays published
\* once all runs have finished.
C14_LatestRunWins == AllRunsFinished => PublishedIsLatest

-----------------------------------------------------------------------------
(* ReportsScreen: fetchReportData of src/app/(tabs)/reports.tsx *)

\* const years = [2025, 2026, 2027]
years == << 2025, 2026, 2027 >>

\* format(d, 'MMM') by month number
monthAbbr == << "Jan", "Feb", "Mar", "Apr", "May", "Jun", "Jul", "Aug", "Sep",
                "Oct", "Nov", "Dec" >>

\* parseFloat(x || '0'): undefined and '' give 0, a text that starts with no
\* number gives NaN
parseFloatOrZero(x) ==
  CASE x.t = "missing" -> Num(0)
    [] x.t = "junk"    -> NaN
    [] OTHER           -> Num(x.v)

\* Math.min(...years) and Math.max(...years)
minYear == CHOOSE y \in { years[i] : i \in DOMAIN years } :
             \A i \in DOMAIN years : y <= years[i]
maxYear == CHOOSE y \in { years[i] : i \in DOMAIN years } :
             \A i \in DOMAIN years : y >= years[i]

\* start and end of the report, at day granularity
reportRange(view, year, quarter) ==
  CASE view = "month" ->
         [start |-> Date(year, 0, 1), end |-> Date(year, 11, 31)]
    [] view = "year" ->
         [start |-> Date(minYear, 0, 1), end |-> Date(maxYear, 11, 31)]
    [] OTHER ->
         [start |-> Date(year, quarter * 3, 1),
          end   |-> Date(year, quarter * 3 + 2, daysInMonth(year, quarter * 3 + 2))]

\* the keys of the buckets made before the records are read, in order
reportLabels(view, quarter) ==
  CASE view = "month" -> monthAbbr
    [] view = "year"  -> [i \in DOMAIN years |-> ToString(years[i])]
    [] OTHER          -> SubSeq(monthAbbr, quarter * 3 + 1, quarter * 3 + 3)

\* format(date, formatStr)
reportKey(view, dt) ==
  IF view = "year" THEN ToString(dt.y) ELSE monthAbbr[dt.m + 1]

\* daily record: d.date?.seconds ? new Date(seconds * 1000) : new Date(d.date)
decodeReportDate(raw) ==
  CASE raw.t \in {"missing", "junk"} ->
         [outcome |-> "invalid", date |-> Date(0, 0, 0)]
    [] OTHER -> [outcome |-> "ok", date |-> Date(raw.y, raw.m, raw.d)]

\* sData.isAmortization === true || description includes 'amortization'
isAmort(sData) ==
  sData.isAmortization \/ isAmortizationText(sData.description)

\* the expense lines of one daily record added up
RECURSIVE reportExpenses(_, _, _, _)
reportExpenses(expenses, i, inc, sum) ==
  IF i > Len(expenses) THEN sum
  ELSE IF ~inc /\ isAmortizationText(expenses[i].category)
       THEN reportExpenses(expenses, i + 1, inc, sum)
       ELSE reportExpenses(expenses, i + 1, inc,
                           Plus(sum, parseFloatOrZero(expenses[i].amount)))

\* if (buckets[key]) { buckets[key].inc += inc; buckets[key].exp += exp }
addToBucket(acc, key, inc, exp) ==
  IF key \notin DOMAIN acc.buckets THEN acc
  ELSE [acc EXCEPT !.buckets[key] =
          [inc |-> Plus(@.inc, inc), exp |-> Plus(@.exp, exp)]]

\* the body of financeSnap.forEach for one document
reportFinanceDoc(acc, d, c) ==
  LET dec == decodeReportDate(d.date)
  IN IF ~isWithinInterval(dec, c.range) THEN acc
     ELSE addToBucket(acc, reportKey(c.view, dec.date),
                      parseFloatOrZero(d.sales),
                      reportExpenses(d.expenses, 1, c.inc, Num(0)))

RECURSIVE reportFinanceLoop(_, _, _, _)
reportFinanceLoop(docs, i, acc, c) ==
  IF i > Len(docs) THEN acc
  ELSE reportFinanceLoop(docs, i + 1, reportFinanceDoc(acc, docs[i], c), c)

\* the body of sSnap.forEach for one document
reportServiceDoc(acc, sData, c) ==
  LET dec == decodeServiceDate(sData.date, c.strict)
  IN IF acc.threw THEN acc
     ELSE IF dec.outcome = "throw" THEN [acc EXCEPT !.threw = TRUE]
     ELSE IF ~isWithinInterval(dec, c.range) THEN acc
     ELSE IF ~c.inc /\ isAmort(sData) THEN acc
     ELSE addToBucket(acc, reportKey(c.view, dec.date), Num(0),
                      parseFloatOrZero(sData.cost))

RECURSIVE reportServiceDocs(_, _, _, _)
reportServiceDocs(docs, i, acc, c) ==
  IF i > Len(docs) THEN acc
  ELSE reportServiceDocs(docs, i + 1, reportServiceDoc(acc, docs[i], c), c)

RECURSIVE reportServiceLoop(_, _, _, _, _)
reportServiceLoop(vIds, k, acc, svc, c) ==
  IF k > Len(vIds) THEN acc
  ELSE reportServiceLoop(vIds, k + 1,
         reportServiceDocs(IF vIds[k] \in DOMAIN svc THEN svc[vIds[k]] ELSE << >>,
                           1, acc, c),
         svc, c)

\* in: [av, view, year, quarter, vf, inc, fin, svc, strict]
fetchReportData(in) ==
  IF Len(in.av) = 0 THEN [status |-> "skipped"]
  ELSE
    LET labels == reportLabels(in.view, in.quarter)
        c == [view |-> in.view, inc |-> in.inc, strict |-> in.strict,
              range |-> reportRange(in.view, in.year, in.quarter)]
        acc0 == [buckets |-> [k \in { labels[i] : i \in DOMAIN labels } |->
                                [inc |-> Num(0), exp |-> Num(0)]],
                 threw |-> FALSE]
        acc1 == reportFinanceLoop(qFinances(in.fin, in.vf), 1, acc0, c)
        acc2 == reportServiceLoop(serviceVehicleIds(in.av, in.vf), 1, acc1,
                                  in.svc, c)
    IN IF acc2.threw THEN [status |-> "threw"]
       ELSE [status |-> "ok",
             chartData |->
               [labels   |-> labels,
                income   |-> [i \in DOMAIN labels |-> acc2.buckets[labels[i]].inc],
                expenses |-> [i \in DOMAIN labels |-> acc2.buckets[labels[i]].exp]]]

\* what a report started from the given filter values reads
ReportInput(av, view, year, quarter, vf, inc) ==
  [av |-> av, view |-> view, year |-> year, quarter |-> quarter, vf |-> vf,
   inc |-> inc, fin |-> finances, svc |-> serviceHistory,
   strict |-> parseISOThrows]

\* setChartData on success; the catch block otherwise
PublishReport(r) ==
  /\ lastReportRun' = r.status
  /\ chartData' = IF r.status = "ok" THEN r.chartData ELSE chartData

homeScreen == << selection, published, drillDown, inFlight >>

\* onSnapshot of 'vehicles' in ReportsScreen
OnReportVehiclesSnapshot ==
  /\ reportAvailableVehicles = << >>
  /\ reportAvailableVehicles' = vehicleList(vehicleDocs)
  /\ \E r \in { fetchReportData(ReportInput(reportAvailableVehicles',
       reportView, reportSelectedYear, reportSelectedQuarter,
       reportVehicleFilter, reportIncludeAmortization)) } :
         PublishReport(r)
  /\ UNCHANGED << db, homeScreen, editor, laterScreens, reportView, reportSelectedYear,
                  reportSelectedQuarter, reportVehicleFilter,
                  reportIncludeAmortization >>

\* SegmentedButtons onValueChange={setReportView}
SetReportView ==
  \E view \in {"month", "quarter", "year"} :
    /\ view # reportView
    /\ reportView' = view
    /\ \E r \in { fetchReportData(ReportInput(reportAvailableVehicles,
         reportView', reportSelectedYear, reportSelectedQuarter,
         reportVehicleFilter, reportIncludeAmortization)) } :
           PublishReport(r)
    /\ UNCHANGED << db, homeScreen, editor, laterScreens, reportAvailableVehicles,
                    reportSelectedYear, reportSelectedQuarter,
                    reportVehicleFilter, reportIncludeAmortization >>

\* year menu (hidden in the 'year' view): setSelectedYear(y)
SetReportSelectedYear ==
  \E i \in DOMAIN years :
    /\ reportView # "year"
    /\ years[i] \in SelectableYears
    /\ years[i] # reportSelectedYear
    /\ reportSelectedYear' = years[i]
    /\ \E r \in { fetchReportData(ReportInput(reportAvailableVehicles,
         reportView, reportSelectedYear', reportSelectedQuarter,
         reportVehicleFilter, reportIncludeAmortization)) } :
           PublishReport(r)
    /\ UNCHANGED << db, homeScreen, editor, laterScreens, reportAvailableVehicles, reportView,
                    reportSelectedQuarter, reportVehicleFilter,
                    reportIncludeAmortization >>

\* quarter menu (shown in the 'quarter' view): setSelectedQuarter(q.value)
SetReportSelectedQuarter ==
  \E q \in SelectableQuarters :
    /\ reportView = "quarter"
    /\ q # reportSelectedQuarter
    /\ reportSelectedQuarter' = q
    /\ \E r \in { fetchReportData(ReportInput(reportAvailableVehicles,
         reportView, reportSelectedYear, reportSelectedQuarter',
         reportVehicleFilter, reportIncludeAmortization)) } :
           PublishReport(r)
    /\ UNCHANGED << db, homeScreen, editor, laterScreens, reportAvailableVehicles, reportView,
                    reportSelectedYear, reportVehicleFilter,
                    reportIncludeAmortization >>

\* SegmentedButtons onValueChange={setVehicleFilter}
SetReportVehicleFilter ==
  \E i \in 1..Len(reportAvailableVehicles) :
    /\ reportAvailableVehicles[i].value # reportVehicleFilter
    /\ reportVehicleFilter' = reportAvailableVehicles[i].value
    /\ \E r \in { fetchReportData(ReportInput(reportAvailableVehicles,
         reportView, reportSelectedYear, reportSelectedQuarter,
         reportVehicleFilter', reportIncludeAmortization)) } :
           PublishReport(r)
    /\ UNCHANGED << db, homeScreen, editor, laterScreens, reportAvailableVehicles, reportView,
                    reportSelectedYear, reportSelectedQuarter,
                    reportIncludeAmortization >>

\* Checkbox onPress (the card is rendered once a chart exists)
ToggleReportIncludeAmortization ==
  /\ chartData # NullChart
  /\ reportIncludeAmortization' = ~reportIncludeAmortization
  /\ \E r \in { fetchReportData(ReportInput(reportAvailableVehicles,
       reportView, reportSelectedYear, reportSelectedQuarter,
       reportVehicleFilter, reportIncludeAmortization')) } :
         PublishReport(r)
  /\ UNCHANGED << db, homeScreen, editor, laterScreens, reportAvailableVehicles, reportView,
                  reportSelectedYear, reportSelectedQuarter,
                  reportVehicleFilter >>

NextReport ==
  \/ OnReportVehiclesSnapshot
  \/ SetReportView
  \/ SetReportSelectedYear
  \/ SetReportSelectedQuarter
  \/ SetReportVehicleFilter
  \/ ToggleReportIncludeAmortization

\* records of two months and two years; a service entry flagged as
\* amortization whose description does not say so
ReportDocs ==
  { Daily("v1", Iso(2025, 2, 1), RNum(1000), FALSE,
          << Line("Gas", RNum(200)), Line("Amortization", RNum(300)) >>),
    Daily("v1", Ts(2025, 1, 28), RNum(500), FALSE, << >>),
    Daily("v2", Iso(2026, 2, 1), RNum(100), FALSE, << >>),
    Service("v1", Iso(2025, 2, 2), "Amortization payment", RNum(1500)),
    ServiceFlagged("v2", Iso(2025, 2, 4), "Down payment", RNum(700), TRUE),
    Service("v2", Ts(2025, 1, 10), "Oil change", RNum(250)) }

InitReport == InitOver(ReportDocs, {Date(2025, 2, 5)}, {FALSE})

SpecReport == InitReport /\ [][NextReport]_vars

-----------------------------------------------------------------------------
(* Vocabulary of the period and classification properties *)

Same(x) == x

\* the totals of the published chart
ChartIncome == SumSeq(chartData.income, Same)
ChartExpenses == SumSeq(chartData.expenses, Same)

ReportPublished == lastReportRun = "ok"

\* the vehicles of ReportsScreen that its vehicle filter lets pass
ReportPasses(id) == reportVehicleFilter = "all" \/ id = reportVehicleFilter
ReportTrackedInFilter ==
  { i \in 1..Len(reportAvailableVehicles) :
      /\ reportAvailableVehicles[i].value # "all"
      /\ ReportPasses(reportAvailableVehicles[i].value) }

\* the daily records and service entries of the report's vehicles whose
\* date satisfies Within
ReportDaily(Within(_)) ==
  { i \in 1..Len(finances) :
      /\ ReportPasses(finances[i].vehicleId)
      /\ WellFormedDate(finances[i].date)
      /\ Within(finances[i].date) }
ReportService(Within(_)) ==
  UNION { { << reportAvailableVehicles[i].value, j >> :
              j \in { j \in 1..Len(serviceHistory[reportAvailableVehicles[i].value]) :
                        LET raw == serviceHistory[reportAvailableVehicles[i].value][j].date
                        IN WellFormedDate(raw) /\ Within(raw) } } :
          i \in ReportTrackedInFilter }
ReportLines(Within(_)) ==
  UNION { { << i, j >> : j \in 1..Len(finances[i].expenses) } :
          i \in ReportDaily(Within) }

\* a text that contains 'amortization' in any letter case, among the texts
\* of the records
ContainsAmortization(text) ==
  text \in {"Amortization", "AMORTIZATION FEE", "Amortization payment"}

\* the expenses of the lines and entries dated Within that the toggle value
\* inc counts when only the text classifies
ExpectedReportExpenses(Within(_), inc) ==
  Plus(SumOver({ p \in ReportLines(Within) :
                   inc \/ ~ContainsAmortization(finances[p[1]].expenses[p[2]].category) },
               LineAmount),
       SumOver({ p \in ReportService(Within) :
                   inc \/ ~ContainsAmortization(serviceHistory[p[1]][p[2]].description) },
               ServiceCost))

\* the labels a vehicle can be shown under
VehicleLabels ==
  { vehicleLabel(availableVehicles, id) : id \in {"v1", "v2", "v9"} }
MonthNames ==
  { months[i] : i \in DOMAIN months } \cup { monthAbbr[i] : i \in DOMAIN monthAbbr }

\* the totals of HomeScreen are those of the records in scope
TotalsOfScope ==
  /\ data.income = SumOver(DailyInScope, SalesRead)
  /\ data.expenses =
       Plus(SumOver(CountedLines, LineAmount), SumOver(CountedServices, ServiceCost))

-----------------------------------------------------------------------------
(* C15 *)

\* month view of HomeScreen: the records of the selected month, by label
C15_HomeScreen ==
  MonthRunPublished =>
    /\ TotalsOfScope
    /\ DOMAIN details \subseteq VehicleLabels
    /\ \A n \in DOMAIN rawLogs :
         /\ rawLogs[n].date.y = selectedYear
         /\ rawLogs[n].date.m = selectedMonth
         /\ KeysOf(n) = { vehicleLabel(availableVehicles, rawLogs[n].vehicleId) }

\* month view of ReportsScreen: the records of one month of the selected
\* year, by label
C15_ReportsScreen ==
  (ReportPublished /\ reportView = "month") =>
    /\ \E m \in 0..11 :
         LET InMonth(raw) == raw.y = reportSelectedYear /\ raw.m = m
         IN /\ ChartIncome = SumOver(ReportDaily(InMonth), SalesRead)
            /\ ChartExpenses =
                 ExpectedReportExpenses(InMonth, reportIncludeAmortization)
    /\ \A i \in DOMAIN chartData.labels :
         chartData.labels[i] \in
           { reportAvailableVehicles[k].label : k \in DOMAIN reportAvailableVehicles }

\* C15: in view 'month' exactly the records dated in the selected month of
\* the selected year are aggregated, each under the display label of its
\* vehicle, on the analytics screen and in the report.
C15_MonthModePeriod == C15_HomeScreen /\ C15_ReportsScreen

-----------------------------------------------------------------------------
(* C16 *)

\* year view of HomeScreen: the records of the selected year, by month name
C16_HomeScreen ==
  (lastRun = "ok" /\ summaryView = "year") =>
    /\ TotalsOfScope
    /\ DOMAIN details \subseteq MonthNames
    /\ \A n \in DOMAIN rawLogs :
         /\ rawLogs[n].date.y = selectedYear
         /\ KeysOf(n) = { months[rawLogs[n].date.m + 1] }

\* year view of ReportsScreen: the records of the selected year, by month
C16_ReportsScreen ==
  (ReportPublished /\ reportView = "year") =>
    LET InYear(raw) == raw.y = reportSelectedYear
    IN /\ ChartIncome = SumOver(ReportDaily(InYear), SalesRead)
       /\ ChartExpenses = ExpectedReportExpenses(InYear, reportIncludeAmortization)
       /\ \A i \in DOMAIN chartData.labels : chartData.labels[i] \in MonthNames

\* C16: in view 'year' exactly the records dated within the selected year
\* are aggregated, each under the name of its month, on the analytics
\* screen and in the report.
C16_YearModePeriod == C16_HomeScreen /\ C16_ReportsScreen

-----------------------------------------------------------------------------
(* C17 *)

InPeriodOfReport(raw) ==
  /\ dayOrdinal(reportRange(reportView, reportSelectedYear,
                            reportSelectedQuarter).start)
       <= dayOrdinal(Date(raw.y, raw.m, raw.d))
  /\ dayOrdinal(Date(raw.y, raw.m, raw.d))
       <= dayOrdinal(reportRange(reportView, reportSelectedYear,
                                 reportSelectedQuarter).end)

\* the expenses of HomeScreen's scope that the toggle value inc counts when
\* only the text classifies
ExpectedExpenses(inc) ==
  Plus(SumOver({ p \in LinesInScope :
                   inc \/ ~ContainsAmortization(finances[p[1]].expenses[p[2]].category) },
               LineAmount),
       SumOver({ p \in ServiceInScope :
                   inc \/ ~ContainsAmortization(serviceHistory[p[1]][p[2]].description) },
               ServiceCost))

\* HomeScreen classifies by the text alone
C17_HomeScreen ==
  lastRun = "ok" =>
    /\ data.expenses = ExpectedExpenses(includeAmortization)
    /\ \A inc \in BOOLEAN : RunWith(inc).data.expenses = ExpectedExpenses(inc)

\* ReportsScreen classifies by the text alone
C17_ReportsScreen ==
  ReportPublished =>
    ChartExpenses =
      ExpectedReportExpenses(InPeriodOfReport, reportIncludeAmortization)

\* C17: a line or entry counts as amortization exactly when its category or
\* description contains 'amortization' in any letter case, whatever else
\* the record holds; amounts not so classified are counted under both
\* toggle values.
C17_ClassifiedByText == C17_HomeScreen /\ C17_ReportsScreen

-----------------------------------------------------------------------------
(* The weekly log editor: TabTwoScreen of src/app/(tabs)/finances.tsx.       *)
(* A date key 'yyyy-MM-dd' is the calendar date it names; the sales text     *)
(* of a day is a raw amount ('' is RMissing, '0' is RNum(0)).  A document    *)
(* this screen writes carries the id it is stored under, and a collection   *)
(* lists its documents in the order of their ids, as getDocs returns them.   *)
(* The userId and updatedAt fields of a document are read by no screen and   *)
(* are left out.                                                             *)

\* days.map(d => format(d, 'yyyy-MM-dd')) of the week shown
daysOfWeek(ws) == [i \in 1..7 |-> addDays(ws, i - 1)]

\* the default of a day without a stored record
defaultDay(vehicle, dt) ==
  [sales |-> RMissing,
   isDayOff |-> \/ dayName(dt) = "Friday"
                \/ (vehicle.name \in {"J1", "j1"} /\ dayName(dt) = "Wednesday")
                \/ (vehicle.name \in {"J2", "j2"} /\ dayName(dt) = "Tuesday"),
   expenses |-> << Line("Advertisement", RNum(400)) >>]

\* the positions of the stored records of a vehicle and a date key
storedAt(fin, vehicleId, dt) ==
  { i \in 1..Len(fin) :
      /\ fin[i].vehicleId = vehicleId
      /\ fin[i].date = Iso(dt.y, dt.m, dt.d) }

\* loadedRecords[data.date] = {...}: the last document of the day is kept
loadedDay(fin, i) ==
  [sales |-> fin[i].sales, isDayOff |-> fin[i].isDayOff,
   expenses |-> fin[i].expenses]

\* the records loadWeeklyData sets for a vehicle and a week
loadWeeklyData(fin, vehicle, ws) ==
  [dt \in { daysOfWeek(ws)[i] : i \in 1..7 } |->
     LET hits == storedAt(fin, vehicle.id, dt)
     IN IF hits = {} THEN defaultDay(vehicle, dt)
        ELSE loadedDay(fin, CHOOSE i \in hits : \A j \in hits : j <= i)]

\* doc(db, 'finances', `${selectedVehicle.id}_${dateKey}`)
docId(vehicleId, dt) == [vehicleId |-> vehicleId, dateKey |-> dt]

\* the order of document ids `${vehicleId}_${dateKey}` as texts
idBefore(a, b) ==
  LET rank(v) == CHOOSE n \in 1..3 : << "v1", "v2", "v9" >>[n] = v
  IN \/ rank(a.vehicleId) < rank(b.vehicleId)
     \/ /\ a.vehicleId = b.vehicleId
        /\ dayOrdinal(a.dateKey) < dayOrdinal(b.dateKey)

\* faulty variant: every save adds a document under a new id
setDocAdding(fin, vehicleId, dt, day) ==
  Append(fin, [id |-> docId(vehicleId, dt), vehicleId |-> vehicleId,
               date |-> Iso(dt.y, dt.m, dt.d), sales |-> day.sales,
               isDayOff |-> day.isDayOff, expenses |-> day.expenses])

\* setDoc(docRef, {...records[dateKey], vehicleId, date: dateKey}, {merge: true})
setDoc(fin, vehicleId, dt, day) ==
  LET written == [id |-> docId(vehicleId, dt), vehicleId |-> vehicleId,
                  date |-> Iso(dt.y, dt.m, dt.d), sales |-> day.sales,
                  isDayOff |-> day.isDayOff, expenses |-> day.expenses]
      at == { i \in 1..Len(fin) : fin[i].id = written.id }
  IN IF at = {}
     THEN SelectSeq(fin, LAMBDA d : idBefore(d.id, written.id))
            \o << written >>
            \o SelectSeq(fin, LAMBDA d : ~idBefore(d.id, written.id))
     ELSE [i \in 1..Len(fin) |-> IF i \in at THEN written ELSE fin[i]]

\* the writes of handleSave, one per date key of records
RECURSIVE saveAll(_, _, _, _)
saveAll(fin, vehicleId, recs, keys) ==
  IF keys = {} THEN fin
  ELSE LET dt == CHOOSE k \in keys :
                   \A o \in keys : dayOrdinal(k) <= dayOrdinal(o)
       IN saveAll(setDoc(fin, vehicleId, dt, recs[dt]), vehicleId, recs,
                  keys \ {dt})

\* the weeks the editor is moved between, the week day whose card is
\* edited, and the sales typed
EditableWeeks == { Date(2025, 1, 24), Date(2025, 2, 3) }
EditedDayNames == { "Wednesday" }
EnteredSales == { RNum(500) }

\* onSnapshot of 'vehicles': setVehicles, setSelectedVehicle(vehicleList[0]),
\* then the effect that loads the week
OnEditorVehiclesSnapshot ==
  /\ vehicles = << >>
  /\ vehicles' = vehicleDocs
  /\ selectedVehicle' = IF Len(vehicleDocs) > 0 THEN vehicleDocs[1] ELSE NoVehicle
  /\ records' = IF selectedVehicle' = NoVehicle THEN records
                ELSE loadWeeklyData(finances, selectedVehicle', weekStart)
  /\ UNCHANGED << db, homeScreen, reportScreen, laterScreens, weekStart >>

\* vehicle menu: setSelectedVehicle(v), then the effect that loads the week
SetSelectedVehicle ==
  \E i \in 1..Len(vehicles) :
    /\ vehicles[i] # selectedVehicle
    /\ selectedVehicle' = vehicles[i]
    /\ records' = loadWeeklyData(finances, selectedVehicle', weekStart)
    /\ UNCHANGED << db, homeScreen, reportScreen, laterScreens, vehicles, weekStart >>

\* chevron-left: setWeekStart(subDays(weekStart, 7))
PreviousWeek ==
  /\ subDays(weekStart, 7) \in EditableWeeks
  /\ weekStart' = subDays(weekStart, 7)
  /\ records' = IF selectedVehicle = NoVehicle THEN records
                ELSE loadWeeklyData(finances, selectedVehicle, weekStart')
  /\ UNCHANGED << db, homeScreen, reportScreen, laterScreens, vehicles, selectedVehicle >>

\* chevron-right: setWeekStart(addDays(weekStart, 7))
FollowingWeek ==
  /\ addDays(weekStart, 7) \in EditableWeeks
  /\ weekStart' = addDays(weekStart, 7)
  /\ records' = IF selectedVehicle = NoVehicle THEN records
                ELSE loadWeeklyData(finances, selectedVehicle, weekStart')
  /\ UNCHANGED << db, homeScreen, reportScreen, laterScreens, vehicles, selectedVehicle >>

\* the sales field of a day (rendered while the day is not a day off)
UpdateSales ==
  \E dateKey \in DOMAIN records, val \in EnteredSales :
    /\ dayName(dateKey) \in EditedDayNames
    /\ ~records[dateKey].isDayOff
    /\ records[dateKey].sales # val
    /\ records' = [records EXCEPT ![dateKey].sales = val]
    /\ UNCHANGED << db, homeScreen, reportScreen, laterScreens, vehicles, selectedVehicle,
                    weekStart >>

\* the day-off switch of a day
ToggleDayOff ==
  \E dateKey \in DOMAIN records :
    /\ dayName(dateKey) \in EditedDayNames
    /\ LET val == ~records[dateKey].isDayOff
       IN records' = [records EXCEPT
                        ![dateKey].isDayOff = val,
                        ![dateKey].sales = IF val THEN RNum(0) ELSE @]
    /\ UNCHANGED << db, homeScreen, reportScreen, laterScreens, vehicles, selectedVehicle,
                    weekStart >>

\* the save button: one setDoc per day of records
HandleSave ==
  /\ selectedVehicle # NoVehicle
  /\ finances' = saveAll(finances, selectedVehicle.id, records, DOMAIN records)
  /\ UNCHANGED << vehicleDocs, serviceHistory, now, parseISOThrows,
                  homeScreen, reportScreen, editor, laterScreens >>

NextEditor ==
  \/ OnEditorVehiclesSnapshot
  \/ SetSelectedVehicle
  \/ PreviousWeek
  \/ FollowingWeek
  \/ UpdateSales
  \/ ToggleDayOff
  \/ HandleSave

\* the editor over a finances collection that nothing else has written
InitEditor == InitOver({}, {Date(2025, 2, 5)}, {FALSE})

SpecEditor == InitEditor /\ [][NextEditor]_vars


-----------------------------------------------------------------------------
(* C18 *)

\* day-off records with and without sales, beside a working day
DayOffDocs ==
  { Daily("v1", Iso(2025, 2, 1), RNum(1000), FALSE, << >>),
    Daily("v1", Iso(2025, 2, 3), RNum(500), TRUE, << >>),
    Daily("v2", Iso(2025, 2, 3), RNum(0), TRUE, << Line("Gas", RNum(200)) >>),
    Daily("v2", Iso(2025, 1, 10), RMissing, TRUE, << >>) }

InitDayOff == InitOver(DayOffDocs, {Date(2025, 2, 5)}, {FALSE})

SpecDayOff == InitDayOff /\ [][Next]_vars

\* the in-scope daily records that are no day off
WorkingInScope == { i \in DailyInScope : ~finances[i].isDayOff }

\* the income of a log entry that is no day off
WorkingIncome(log) == IF log.description = "Day Off" THEN Num(0) ELSE log.income

\* the logs of a group
LogsOf(k) == SelectSeq(rawLogs, LAMBDA log : inGroup(log, k, summaryView))

\* a record is one the weekly log editor wrote
EditorWritten(d) == "id" \in DOMAIN d

\* the editor: a day off on screen or saved has sales that count as zero
C18_Editor ==
  /\ \A dateKey \in DOMAIN records :
       records[dateKey].isDayOff =>
         NumberOrZero(records[dateKey].sales) = Num(0)
  /\ \A i \in 1..Len(finances) :
       (EditorWritten(finances[i]) /\ finances[i].isDayOff) =>
         NumberOrZero(finances[i].sales) = Num(0)

\* an editor day that had sales, was switched to a day off and saved
C18_EditorWitness ==
  \E i \in 1..Len(finances) :
    /\ EditorWritten(finances[i])
    /\ finances[i].isDayOff
    /\ finances[i].sales = RNum(0)
    /\ dayName(finances[i].id.dateKey) = "Wednesday"
    /\ finances[i].vehicleId = "v2"

\* the aggregator: the day-off records add nothing to the income of the
\* totals, of a group or of a log entry
C18_Aggregator ==
  lastRun = "ok" =>
    /\ data.income = SumOver(WorkingInScope, SalesRead)
    /\ \A k \in DOMAIN details :
         details[k].income = SumSeq(LogsOf(k), WorkingIncome)
    /\ \A n \in 1..Len(rawLogs) :
         rawLogs[n].description = "Day Off" => rawLogs[n].income = Num(0)

\* C18: a daily record with isDayOff = true adds 0 to totals.income and to
\* the income of its group, both when the weekly log editor produced it
\* (after any toggleDayOff, updateSales and save) and whenever the
\* aggregator reads such a record.
C18_DayOffZeroIncome == C18_Editor /\ C18_Aggregator


-----------------------------------------------------------------------------
(* C19 *)

\* the published log entries of the daily records and of the service entries
DailyLogs == SelectSeq(rawLogs, LAMBDA log : log.type = "Daily")
ServiceLogs == SelectSeq(rawLogs, LAMBDA log : log.type = "Service")

\* a log entry is of a vehicle the filter lets pass and of a day of the period
LogInScope(log) ==
  /\ PassesFilter(log.vehicleId)
  /\ dayOrdinal(Period.start) <= dayOrdinal(log.date)
  /\ dayOrdinal(log.date) <= dayOrdinal(Period.end)

\* the days the screen reports as missing for the vehicle at position i
ReportedDays(i) == { ReportedFor(i)[n] : n \in DOMAIN ReportedFor(i) }

\* only records of the selected vehicles and of the period contribute
C19_OnlyInScope ==
  lastRun = "ok" =>
    /\ \A n \in 1..Len(rawLogs) : LogInScope(rawLogs[n])
    /\ Len(DailyLogs) <= Cardinality(DailyInScope)
    /\ Len(ServiceLogs) <= Cardinality(ServiceInScope)
    /\ data.income = SumSeq(rawLogs, Income)
    /\ data.expenses = SumSeq(rawLogs, Expenses)
    /\ summaryView = "month" =>
         \A i \in TrackedInFilter : \A day \in 1..LastDay :
           day \notin ReportedDays(i) =>
             HasDailyRecord(availableVehicles[i].value, day)

\* every record of the selected vehicles and of the period contributes
C19_AllInScope ==
  lastRun = "ok" =>
    /\ Len(DailyLogs) = Cardinality(DailyInScope)
    /\ Len(ServiceLogs) = Cardinality(ServiceInScope)
    /\ summaryView = "month" =>
         \A i \in TrackedInFilter : \A day \in 1..LastDay :
           HasDailyRecord(availableVehicles[i].value, day) =>
             day \notin ReportedDays(i)

\* C19: every record that contributes to the totals, the groups, the
\* drill-down logs or the gap coverage is of the selected vehicle (of any
\* vehicle under 'all') and dated within the period, and every well-formed
\* record of the selected vehicle dated within the period contributes.
C19_ScopeFilter == C19_OnlyInScope /\ C19_AllInScope


-----------------------------------------------------------------------------
(* C20 *)

\* the (vehicleId, date) pair of a stored daily record
PairOf(d) == << d.vehicleId, d.date >>

\* a collection holds at most one daily record per (vehicleId, date) pair
OnePerPair(fin) ==
  \A i, j \in 1..Len(fin) : PairOf(fin[i]) = PairOf(fin[j]) => i = j

\* the collection after the save button is pressed on the week shown
Saved(fin) == saveAll(fin, selectedVehicle.id, records, DOMAIN records)

\* the pairs a save of the week shown writes
PairsShown ==
  { << selectedVehicle.id, Iso(dt.y, dt.m, dt.d) >> : dt \in DOMAIN records }

\* C20: after any sequence of saves of the weekly log editor (any
\* vehicles, any weeks, repeated or not) the finances collection holds at
\* most one daily record per (vehicleId, date) pair; a save leaves, for
\* each day of the week shown, exactly the record shown as the only one of
\* its pair, whatever was stored before, and leaves the records of other
\* pairs as they were; and saving the unchanged week once more leaves the
\* collection as the first save left it (the time of writing aside).
C20_OneLogPerDay ==
  /\ OnePerPair(finances)
  /\ selectedVehicle # NoVehicle =>
       \A once \in { Saved(finances) } :
         /\ OnePerPair(once)
         /\ \A dt \in DOMAIN records :
              \E i \in 1..Len(once) :
                /\ PairOf(once[i]) = << selectedVehicle.id, Iso(dt.y, dt.m, dt.d) >>
                /\ loadedDay(once, i) = records[dt]
         /\ \A i \in 1..Len(finances) :
              PairOf(finances[i]) \notin PairsShown =>
                \E j \in 1..Len(once) : once[j] = finances[i]
         /\ Saved(once) = once

\* both weeks of both vehicles have been saved, an edited Wednesday is
\* stored, and the week shown differs from what is stored for it, so that
\* the next save overwrites
C20_Witness ==
  /\ Len(finances) = 28
  /\ \E i \in 1..Len(finances) :
       /\ finances[i].sales = RNum(500)
       /\ PairOf(finances[i]) \in PairsShown
       /\ records[finances[i].id.dateKey].isDayOff
  /\ Saved(finances) # finances


-----------------------------------------------------------------------------
(* GapRemindersScreen of src/app/(tabs)/notification.tsx.                    *)
(* calculateAndSchedule awaits AsyncStorage, the notification service and    *)
(* Firestore; the SAVE & SYNC button stays enabled meanwhile.  A call in     *)
(* flight is a record of the state its closure holds (days, active,          *)
(* vehicles), the place it has reached (pc), the date it read (today), the   *)
(* gaps it counted and the week days it still has to schedule (left).  A     *)
(* scheduled notification is its trigger; its title and body are left out.  *)

\* the buttons of DAYS_OF_WEEK that the model presses: Mon and Tue
ReminderDays == { 2, 3 }

\* the weeks the editor saves while the reminders are in use
LoggedWeeks == { Date(2025, 1, 24), Date(2025, 2, 3) }

\* subDays(startOfWeek(today, { weekStartsOn: 1 }), 7)
searchStart(today) == subDays(startOfWeek(today), 7)

\* eachDayOfInterval({ start, end })
eachDayOfInterval(start, end) ==
  [i \in 1..(daysFromEpoch(end) - daysFromEpoch(start) + 1) |->
     addDays(start, i - 1)]

\* format(d, 'yyyy-MM-dd') as a stored date
formatDate(d) == Iso(d.y, d.m, d.d)

\* the documents of the query: date a text from startDateStr to endDateStr
financeSnap(fin, today) ==
  LET first == dayOrdinal(searchStart(today))
      last == dayOrdinal(today)
  IN SelectSeq(fin, LAMBDA d :
       /\ d.date.t = "iso"
       /\ first <= dayOrdinal(Date(d.date.y, d.date.m, d.date.d))
       /\ dayOrdinal(Date(d.date.y, d.date.m, d.date.d)) <= last)

\* logMap[vehicle.id] || new Set(), of the documents snap
vehicleLogs(snap, id) ==
  { snap[i].date : i \in { j \in 1..Len(snap) : snap[j].vehicleId = id } }

\* daysToTrack.filter(d => !vehicleLogs.has(format(d, 'yyyy-MM-dd')))
missing(snap, daysToTrack, id) ==
  LET logs == vehicleLogs(snap, id)
  IN SelectSeq(daysToTrack, LAMBDA d : formatDate(d) \notin logs)

\* totalGaps after the loop over the vehicles vs
RECURSIVE countGaps(_, _, _)
countGaps(snap, daysToTrack, vs) ==
  IF vs = << >> THEN 0
  ELSE (IF Head(vs).selected
        THEN Len(missing(snap, daysToTrack, Head(vs).id)) ELSE 0)
       + countGaps(snap, daysToTrack, Tail(vs))

\* totalGaps of a call that reads the date today
totalGaps(fin, today, vs) ==
  countGaps(financeSnap(fin, today),
            eachDayOfInterval(searchStart(today), today), vs)

\* the trigger of scheduleNotificationAsync
weeklyReminder(dayValue) ==
  [type |-> "weekly", weekday |-> dayValue, hour |-> 18, minute |-> 0]

\* every variable but those of the reminders
besidesReminders ==
  << db, homeScreen, reportScreen, editor, weekLoads, session, driver >>

\* setup(): the vehicles, all selected, and the stored configuration
ReminderSetup ==
  /\ reminderVehicles = << >>
  /\ reminderVehicles' =
       [i \in 1..Len(vehicleDocs) |->
          [id |-> vehicleDocs[i].id,
           name |-> IF vehicleDocs[i].name = "" THEN "Unknown"
                    ELSE vehicleDocs[i].name,
           selected |-> TRUE]]
  /\ IF storedConfig.saved
     THEN /\ selectedDays' = storedConfig.selectedDays
          /\ isReminderActive' = storedConfig.isReminderActive
     ELSE UNCHANGED << selectedDays, isReminderActive >>
  /\ UNCHANGED << besidesReminders, storedConfig, scheduled, syncRuns >>

\* a row of SELECT VEHICLES
ToggleReminderVehicle ==
  \E i \in 1..Len(reminderVehicles) :
    /\ reminderVehicles' =
         [reminderVehicles EXCEPT ![i].selected = ~reminderVehicles[i].selected]
    /\ UNCHANGED << besidesReminders, selectedDays, isReminderActive,
                    storedConfig, scheduled, syncRuns >>

\* a button of REMINDER DAYS
ToggleReminderDay ==
  \E day \in ReminderDays :
    /\ selectedDays' =
         IF \E n \in 1..Len(selectedDays) : selectedDays[n] = day
         THEN SelectSeq(selectedDays, LAMBDA d : d # day)
         ELSE Append(selectedDays, day)
    /\ UNCHANGED << besidesReminders, reminderVehicles, isReminderActive,
                    storedConfig, scheduled, syncRuns >>

\* the switch Enable Backlog Alerts
SetIsReminderActive ==
  /\ isReminderActive' = ~isReminderActive
  /\ UNCHANGED << besidesReminders, reminderVehicles, selectedDays,
                  storedConfig, scheduled, syncRuns >>

\* SAVE & SYNC SCHEDULE pressed while earlier calls may still await:
\* calculateAndSchedule up to its first await
PressSync ==
  /\ Len(syncRuns) < MaxInFlight
  /\ syncRuns' = Append(syncRuns,
       [pc |-> "save", days |-> selectedDays, active |-> isReminderActive,
        vehicles |-> reminderVehicles, today |-> now, totalGaps |-> 0,
        left |-> << >>])
  /\ UNCHANGED << besidesReminders, reminderVehicles, selectedDays,
                  isReminderActive, storedConfig, scheduled >>

\* a sequence without its k-th entry
Without(seq, k) == [i \in 1..(Len(seq) - 1) |-> IF i < k THEN seq[i] ELSE seq[i + 1]]

\* await saveConfigToDisk(selectedDays, isReminderActive) returns
SaveConfigDone ==
  \E k \in 1..Len(syncRuns) :
    /\ syncRuns[k].pc = "save"
    /\ storedConfig' = [saved |-> TRUE, selectedDays |-> syncRuns[k].days,
                        isReminderActive |-> syncRuns[k].active]
    /\ syncRuns' = [syncRuns EXCEPT ![k].pc = "cancel"]
    /\ UNCHANGED << besidesReminders, reminderVehicles, selectedDays,
                    isReminderActive, scheduled >>

\* await cancelAllScheduledNotificationsAsync() returns; the two early
\* returns; new Date() and the query
CancelAllDone ==
  \E k \in 1..Len(syncRuns) :
    /\ syncRuns[k].pc = "cancel"
    /\ scheduled' = EmptyBag
    /\ syncRuns' =
         IF ~syncRuns[k].active \/ Len(syncRuns[k].days) = 0
         THEN Without(syncRuns, k)
         ELSE [syncRuns EXCEPT ![k].pc = "query", ![k].today = now]
    /\ UNCHANGED << besidesReminders, reminderVehicles, selectedDays,
                    isReminderActive, storedConfig >>

\* await getDocs(q) returns; the gaps are counted
GetDocsDone ==
  \E k \in 1..Len(syncRuns) :
    /\ syncRuns[k].pc = "query"
    /\ \E gaps \in { totalGaps(finances, syncRuns[k].today, syncRuns[k].vehicles) } :
         syncRuns' =
           IF gaps > 0
           THEN [syncRuns EXCEPT ![k].pc = "schedule", ![k].totalGaps = gaps,
                                 ![k].left = syncRuns[k].days]
           ELSE Without(syncRuns, k)
    /\ UNCHANGED << besidesReminders, reminderVehicles, selectedDays,
                    isReminderActive, storedConfig, scheduled >>

\* await scheduleNotificationAsync(...) returns for the next selected day
ScheduleDone ==
  \E k \in 1..Len(syncRuns) :
    /\ syncRuns[k].pc = "schedule"
    /\ scheduled' = scheduled (+)
         SetToBag({ weeklyReminder(Head(syncRuns[k].left)) })
    /\ syncRuns' =
         IF Len(syncRuns[k].left) = 1 THEN Without(syncRuns, k)
         ELSE [syncRuns EXCEPT ![k].left = Tail(syncRuns[k].left)]
    /\ UNCHANGED << besidesReminders, reminderVehicles, selectedDays,
                    isReminderActive, storedConfig >>

\* the weekly log editor opened on a vehicle and a week and saved as loaded
\* (loadWeeklyData, then handleSave)
SaveWeekOf ==
  \E i \in 1..Len(vehicleDocs), ws \in LoggedWeeks :
    /\ finances' =
         saveAll(finances, vehicleDocs[i].id,
                 loadWeeklyData(finances, vehicleDocs[i], ws),
                 { daysOfWeek(ws)[n] : n \in 1..7 })
    /\ finances' # finances
    /\ UNCHANGED << vehicleDocs, serviceHistory, now, parseISOThrows,
                    homeScreen, otherScreens >>

\* SAVE & SYNC SCHEDULE with every await returning before the next handler:
\* the whole of calculateAndSchedule
SaveAndSync ==
  /\ syncRuns = << >>
  /\ storedConfig' = [saved |-> TRUE, selectedDays |-> selectedDays,
                      isReminderActive |-> isReminderActive]
  /\ \E gaps \in { totalGaps(finances, now, reminderVehicles) } :
       scheduled' =
         IF isReminderActive /\ Len(selectedDays) > 0 /\ gaps > 0
         THEN SetToBag({ weeklyReminder(selectedDays[n]) :
                           n \in 1..Len(selectedDays) })
         ELSE EmptyBag
  /\ UNCHANGED << besidesReminders, reminderVehicles, selectedDays,
                  isReminderActive, syncRuns >>

\* the screen with one call of calculateAndSchedule at a time
NextReminder ==
  \/ ReminderSetup
  \/ ToggleReminderVehicle
  \/ ToggleReminderDay
  \/ SetIsReminderActive
  \/ SaveAndSync

\* the screen and the editor that fills the gaps
NextBacklog ==
  \/ ReminderSetup
  \/ ToggleReminderDay
  \/ SetIsReminderActive
  \/ SaveAndSync
  \/ SaveWeekOf

\* the screen with calls of calculateAndSchedule that overlap
NextSync ==
  \/ ReminderSetup
  \/ ToggleReminderDay
  \/ SetIsReminderActive
  \/ PressSync
  \/ SaveConfigDone
  \/ CancelAllDone
  \/ GetDocsDone
  \/ ScheduleDone

\* daily records inside and outside the two weeks before a Monday
ReminderDocs ==
  { Daily("v1", Iso(2025, 2, 10), RNum(100), FALSE, << >>),
    Daily("v1", Iso(2025, 2, 1), RNum(100), FALSE, << >>),
    Daily("v2", Iso(2025, 2, 5), RNum(0), TRUE, << >>),
    Daily("v2", Iso(2025, 1, 20), RNum(100), FALSE, << >>) }

\* a Sunday or the Monday after it
InitReminder ==
  InitOver(ReminderDocs, { Date(2025, 2, 9), Date(2025, 2, 10) }, {FALSE})

\* a Sunday, nothing logged
InitBacklog == InitOver({}, { Date(2025, 2, 9) }, {FALSE})

SpecReminder == InitReminder /\ [][NextReminder]_vars

SpecBacklog == InitBacklog /\ [][NextBacklog]_vars

SpecSync == InitBacklog /\ [][NextSync]_vars


-----------------------------------------------------------------------------
(* C21 *)

\* vehicle id has a finance record dated the day d
HasFinanceRecord(id, d) ==
  \E i \in 1..Len(finances) :
    /\ finances[i].vehicleId = id
    /\ WellFormedDate(finances[i].date)
    /\ Date(finances[i].date.y, finances[i].date.m, finances[i].date.d) = d

\* the selected vehicles paired with the days, among the last n days ending
\* today, on which they have no finance record
UnloggedInLast(n) ==
  { p \in (1..Len(reminderVehicles)) \X (1..n) :
      /\ reminderVehicles[p[1]].selected
      /\ ~HasFinanceRecord(reminderVehicles[p[1]].id, subDays(now, n - p[2])) }

\* C21: the gaps calculateAndSchedule counts are, for each selected
\* vehicle, the days without a finance record among the last 14 days ending
\* today, on every day of the week.
C21_FourteenDayWindow ==
  Len(reminderVehicles) > 0 =>
    totalGaps(finances, now, reminderVehicles) = Cardinality(UnloggedInLast(14))


-----------------------------------------------------------------------------
(* C22 *)

\* a selected vehicle has no finance record on a day of the week before the
\* current one
MissedLastWeek ==
  \E i \in 1..Len(reminderVehicles), n \in 0..6 :
    /\ reminderVehicles[i].selected
    /\ ~HasFinanceRecord(reminderVehicles[i].id, addDays(searchStart(now), n))

\* every vehicle has a finance record on every day from the Monday of the
\* week before up to today
NothingMissing ==
  \A i \in 1..Len(reminderVehicles) :
    \A n \in 0..(daysFromEpoch(now) - daysFromEpoch(searchStart(now))) :
      HasFinanceRecord(reminderVehicles[i].id, addDays(searchStart(now), n))

\* a call of calculateAndSchedule has run
Synced == scheduled' # scheduled \/ storedConfig' # storedConfig

\* a backlog found by SAVE & SYNC is scheduled for each selected weekday
C22_BacklogScheduled ==
  [][ (Synced /\ isReminderActive /\ MissedLastWeek) =>
        \A n \in 1..Len(selectedDays) :
          CopiesIn(weeklyReminder(selectedDays[n]), scheduled') >= 1
    ]_vars

\* no reminder is left once nothing is missing
C22_NoneLeftOnceLogged ==
  (Len(reminderVehicles) > 0 /\ syncRuns = << >> /\ NothingMissing) =>
    scheduled = EmptyBag

\* C22: with reminders enabled and a day of last week missed by a selected
\* vehicle, a weekly reminder is scheduled for each selected weekday and
\* recurs while the day is unlogged; once every missing day has been
\* logged, no backlog reminder remains scheduled.
C22_UntilGapFilled ==
  /\ C22_BacklogScheduled
  /\ [](\A r \in BagToSet(scheduled) : r.type = "weekly")
  /\ [](C22_NoneLeftOnceLogged)


-----------------------------------------------------------------------------
(* C26 *)

\* the week days of the saved configuration
SavedDays ==
  { storedConfig.selectedDays[n] : n \in 1..Len(storedConfig.selectedDays) }

\* the saved configuration asks for reminders
RemindersWanted == storedConfig.isReminderActive /\ SavedDays # {}

\* one weekly 18:00 notification for each saved week day and no other
OnePerSavedDay ==
  /\ \A r \in BagToSet(scheduled) :
       /\ r \in { weeklyReminder(d) : d \in SavedDays }
       /\ CopiesIn(r, scheduled) = 1
  /\ \A d \in SavedDays : CopiesIn(weeklyReminder(d), scheduled) = 1

\* C26: when every SAVE & SYNC pressed so far has completed, overlapping
\* or not, nothing is scheduled if the saved configuration has reminders
\* disabled or no day selected; otherwise either nothing is scheduled (no
\* gap was found) or the scheduled notifications are one weekly 18:00
\* notification for each selected weekday, none twice.
C26_ScheduleMatchesConfig ==
  (syncRuns = << >> /\ storedConfig.saved) =>
    IF RemindersWanted
    THEN BagToSet(scheduled) = {} \/ OnePerSavedDay
    ELSE BagToSet(scheduled) = {}

-----------------------------------------------------------------------------
(* AuthScreen and TabLayout of src/app/(tabs)/_layout.tsx, and the redirect  *)
(* of RootLayout (src/app/_layout.tsx).  An account is its uid and the role  *)
(* claim of its id token ("null" when it has none).  The items user_email    *)
(* and user_password of the secure store are read by no tab and are left     *)
(* out.  The call of handleLogin in flight is a record of the account, the   *)
(* role it found and the place it has reached.                               *)

Accounts ==
  { [uid |-> "u1", claim |-> "admin"],
    [uid |-> "u2", claim |-> "driver"],
    [uid |-> "u3", claim |-> "null"] }

\* the screens of <Tabs>
TabNames == { "index", "driver", "reports", "finances", "vehicle", "notification" }

\* every variable but those of the session
besidesSession ==
  << db, homeScreen, reportScreen, editor, weekLoads, reminders, driver >>

\* faulty variant: every stored role is an admin
isAdminIfStored(r) == r # "null"

\* const isAdmin = role === 'admin'
isAdmin(r) == r = "admin"

\* the href option of a tab: a path, or null
href(tab, r) ==
  IF tab = "driver" THEN (IF ~isAdmin(r) THEN "driver" ELSE "null")
  ELSE IF isAdmin(r) THEN (IF tab = "index" THEN "/" ELSE tab) ELSE "null"

\* TabLayout is mounted, on its index screen or on the Driver tab
InTabs == route \in { "tabs", "tabs/driver" }

\* TabLayout renders <Tabs> (and not the ActivityIndicator)
TabsRendered == InTabs /\ ~isLoading

\* the tab is in the tab bar and can be opened
Linked(tab) == TabsRendered /\ href(tab, role) # "null"

\* the Login button: handleLogin up to signInWithEmailAndPassword
PressLogin ==
  /\ route = "index"
  /\ login.pc = "idle"
  /\ \E a \in Accounts : login' = [pc |-> "signIn", account |-> a, userRole |-> "null"]
  /\ UNCHANGED << besidesSession, currentUser, storedRole, route, role,
                  isLoading, driverTab >>

\* signInWithEmailAndPassword and getIdTokenResult return, or throw
SignInDone ==
  /\ login.pc = "signIn"
  /\ \/ /\ currentUser' = login.account.uid
        /\ login' = [login EXCEPT
                       !.pc = "storeRole",
                       !.userRole = IF login.account.claim = "null" THEN "user"
                                    ELSE login.account.claim]
     \/ /\ login' = NoLogin
        /\ UNCHANGED currentUser
  /\ UNCHANGED << besidesSession, storedRole, route, role, isLoading, driverTab >>

\* SecureStore.setItemAsync('user_role', userRole) returns, or throws
StoreRoleDone ==
  /\ login.pc = "storeRole"
  /\ \/ /\ storedRole' = login.userRole
        /\ login' = [login EXCEPT !.pc = "redirect"]
     \/ /\ login' = NoLogin
        /\ UNCHANGED storedRole
  /\ UNCHANGED << besidesSession, currentUser, route, role, isLoading, driverTab >>

\* the other items are stored and router.replace mounts TabLayout
RedirectToTabs ==
  /\ login.pc = "redirect"
  /\ login' = NoLogin
  /\ route' = IF login.userRole = "admin" THEN "tabs" ELSE "tabs/driver"
  /\ role' = "null"
  /\ isLoading' = TRUE
  /\ driverTab' = "unmounted"
  /\ UNCHANGED << besidesSession, currentUser, storedRole >>

\* a link into (tabs) is opened while a user is signed in
FollowLink ==
  /\ route = "index"
  /\ login.pc = "idle"
  /\ currentUser # "null"
  /\ route' = "tabs"
  /\ role' = "null"
  /\ isLoading' = TRUE
  /\ driverTab' = "unmounted"
  /\ UNCHANGED << besidesSession, currentUser, storedRole, login >>

\* fetchRole: SecureStore.getItemAsync('user_role') returns, or throws
FetchRoleDone ==
  /\ InTabs
  /\ isLoading
  /\ role' \in { storedRole, role }
  /\ isLoading' = FALSE
  /\ UNCHANGED << besidesSession, currentUser, storedRole, route, login, driverTab >>

\* onAuthStateChanged(null): RootLayout replaces (tabs) by the index screen
AuthLost ==
  /\ currentUser # "null"
  /\ login.pc = "idle"
  /\ currentUser' = "null"
  /\ route' = "index"
  /\ driverTab' = "unmounted"
  /\ UNCHANGED << besidesSession, storedRole, login, role, isLoading >>

\* the Driver tab is pressed
OpenDriverTab ==
  /\ route = "tabs"
  /\ Linked("driver")
  /\ route' = "tabs/driver"
  /\ UNCHANGED << besidesSession, currentUser, storedRole, login, role,
                  isLoading, driverTab >>

NextTabs ==
  \/ OpenDriverTab
  \/ PressLogin
  \/ SignInDone
  \/ StoreRoleDone
  \/ RedirectToTabs
  \/ FollowLink
  \/ FetchRoleDone
  \/ AuthLost

InitTabs == InitOver({}, {Date(2025, 2, 5)}, {FALSE})

SpecTabs == InitTabs /\ [][NextTabs]_vars


\* the tabs of the administrators
AdminTabs == TabNames \ { "driver" }

\* what the tab bar shows, for the role TabLayout holds
GatedByRole ==
  InTabs =>
    IF isLoading THEN \A t \in TabNames : ~Linked(t)
    ELSE /\ \A t \in AdminTabs : Linked(t) <=> role = "admin"
         /\ Linked("driver") <=> role # "admin"

\* the role TabLayout holds once loaded is the stored one, or none when the
\* read failed or nothing is stored
RoleAsStored ==
  [][(InTabs /\ isLoading /\ InTabs' /\ ~isLoading')
       => role' \in { storedRole, "null" }]_vars

(* C23: for every stored role, an absent one and a failed read included, the  *)
(* admin tabs (Home, Reports, Finances, Vehicle, Notifications) are linked    *)
(* exactly when the role is 'admin', the Driver tab exactly when it is not,   *)
(* and no tab is rendered while the role is loading.                          *)
C23_RoleGating == [] GatedByRole /\ RoleAsStored

\* the read of an admin's stored role failed: only the Driver tab is linked
C23_Witness ==
  /\ TabsRendered
  /\ storedRole = "admin"
  /\ role = "null"
  /\ Linked("driver")
  /\ \A t \in AdminTabs : ~Linked(t)


-----------------------------------------------------------------------------
(* DriverScreen and the background location task (notification.tsx 721-837). *)
(* A driver record is a function from the names of the fields it has to      *)
(* their values.  A call of toggleRealtimeSharing in flight is a record of   *)
(* the place it has reached, the uid of the user it read, the permission     *)
(* results it got, its session id, and whether the DriverScreen that         *)
(* started it is still the mounted one.  serverTimestamp() is one value: no  *)
(* code of the repository reads lastUpdated.                                 *)

\* at most this many trips are started
MaxTrips == 2

\* what a permission request can resolve to
PermissionStatuses == { "granted", "denied", "undetermined" }

\* the requests of the start branch, in the order of the code
PermissionOrder == << "notifications", "foreground", "background" >>

\* every variable but those of DriverScreen and the location task
besidesDriver ==
  << db, homeScreen, reportScreen, editor, weekLoads, reminders, currentUser,
     storedRole, route, login, role, isLoading >>

\* Date.now().toString(), for the few instants of a behaviour
toString(n) == << "1", "2", "3", "4", "5", "6", "7", "8", "9" >>[n]

\* faulty variant: anything but a denial lets the flow go on
grantedUnlessDenied(status) == status # "denied"

\* the flow goes on when status === 'granted'
granted(status) == status = "granted"

\* faulty variant: setDoc without {merge: true} replaces the record
setDocReplacing(coll, uid, fields) ==
  [u \in DOMAIN coll \cup { uid } |-> IF u = uid THEN fields ELSE coll[u]]

\* setDoc(doc(db, 'drivers', uid), fields, {merge: true})
setDocMerge(coll, uid, fields) ==
  [u \in DOMAIN coll \cup { uid } |->
     IF u # uid THEN coll[u]
     ELSE IF uid \notin DOMAIN coll THEN fields
     ELSE [f \in DOMAIN coll[uid] \cup DOMAIN fields |->
             IF f \in DOMAIN fields THEN fields[f] ELSE coll[uid][f]]]

\* the value of a field of a driver record, "none" when it has none
fieldOf(coll, uid, f) ==
  IF uid \in DOMAIN coll /\ f \in DOMAIN coll[uid] THEN coll[uid][f] ELSE "none"

\* DriverScreen mounts: useState(false); the calls of the screen it replaces
\* no longer set its state
MountDriver ==
  /\ route = "tabs/driver"
  /\ TabsRendered
  /\ driverTab = "unmounted"
  /\ driverTab' = "checking"
  /\ isSharing' = FALSE
  /\ toggles' = [k \in DOMAIN toggles |-> [toggles[k] EXCEPT !.mounted = FALSE]]
  /\ UNCHANGED << besidesDriver, taskRunning, drivers, undelivered, dateNow >>

\* checkTaskStatus: hasStartedLocationUpdatesAsync returns
CheckTaskStatusDone ==
  /\ driverTab = "checking"
  /\ driverTab' = "ready"
  /\ isSharing' = taskRunning
  /\ UNCHANGED << besidesDriver, taskRunning, drivers, toggles, undelivered, dateNow >>

\* the button: toggleRealtimeSharing up to its first await
PressToggle ==
  /\ driverTab # "unmounted"
  /\ currentUser # "null"
  /\ Len(toggles) < MaxInFlight
  /\ toggles' = Append(toggles,
                   [pc |-> IF isSharing THEN "stop" ELSE "ask",
                    uid |-> currentUser,
                    asked |-> << >>,
                    sessionId |-> "none",
                    mounted |-> TRUE])
  /\ UNCHANGED << besidesDriver, driverTab, isSharing, taskRunning, drivers,
                  undelivered, dateNow >>

\* setIsSharing(value) of the call k
setIsSharing(k, value) ==
  isSharing' = IF toggles[k].mounted /\ driverTab # "unmounted" THEN value
               ELSE isSharing

\* stopLocationUpdatesAsync returns, or throws
StopDone ==
  \E k \in DOMAIN toggles :
    /\ toggles[k].pc = "stop"
    /\ \/ /\ taskRunning' = FALSE
          /\ toggles' = [toggles EXCEPT ![k].pc = "writeCompleted"]
       \/ /\ toggles' = Without(toggles, k)
          /\ UNCHANGED taskRunning
    /\ UNCHANGED << besidesDriver, driverTab, isSharing, drivers, undelivered, dateNow >>

\* setDoc of status 'completed' returns, or throws
WriteCompletedDone ==
  \E k \in DOMAIN toggles :
    /\ toggles[k].pc = "writeCompleted"
    /\ toggles' = Without(toggles, k)
    /\ \/ /\ drivers' = setDocMerge(drivers, toggles[k].uid,
                            [status |-> "completed",
                             lastUpdated |-> "serverTimestamp"])
          /\ setIsSharing(k, FALSE)
       \/ UNCHANGED << drivers, isSharing >>
    /\ UNCHANGED << besidesDriver, driverTab, taskRunning, undelivered, dateNow >>

\* the next permission request returns: the flow goes on if it was granted,
\* after the third to Date.now() and startLocationUpdatesAsync
PermissionDone ==
  \E k \in DOMAIN toggles, status \in PermissionStatuses :
    LET asked == Append(toggles[k].asked,
                        [permission |-> PermissionOrder[Len(toggles[k].asked) + 1],
                         status |-> status])
    IN  /\ toggles[k].pc = "ask"
        /\ IF ~granted(status)
             THEN toggles' = Without(toggles, k) /\ UNCHANGED dateNow
           ELSE IF Len(asked) < Len(PermissionOrder)
             THEN toggles' = [toggles EXCEPT ![k].asked = asked] /\ UNCHANGED dateNow
           ELSE /\ dateNow <= MaxTrips
                /\ toggles' = [toggles EXCEPT ![k].asked = asked,
                                               ![k].sessionId = toString(dateNow),
                                               ![k].pc = "start"]
                /\ dateNow' = dateNow + 1
        /\ UNCHANGED << besidesDriver, driverTab, isSharing, taskRunning, drivers,
                        undelivered >>

\* startLocationUpdatesAsync returns, or throws
StartDone ==
  \E k \in DOMAIN toggles :
    /\ toggles[k].pc = "start"
    /\ \/ /\ taskRunning' = TRUE
          /\ toggles' = [toggles EXCEPT ![k].pc = "writeActive"]
       \/ /\ toggles' = Without(toggles, k)
          /\ UNCHANGED taskRunning
    /\ UNCHANGED << besidesDriver, driverTab, isSharing, drivers, undelivered, dateNow >>

\* setDoc of status 'active' returns, or throws
WriteActiveDone ==
  \E k \in DOMAIN toggles :
    /\ toggles[k].pc = "writeActive"
    /\ toggles' = Without(toggles, k)
    /\ \/ /\ drivers' = setDocMerge(drivers, toggles[k].uid,
                            [driverName |-> toggles[k].uid,
                             status |-> "active",
                             currentSessionId |-> toggles[k].sessionId,
                             lastUpdated |-> "serverTimestamp"])
          /\ setIsSharing(k, TRUE)
       \/ UNCHANGED << drivers, isSharing >>
    /\ UNCHANGED << besidesDriver, driverTab, taskRunning, undelivered, dateNow >>

\* the running task gets a batch of locations to deliver
LocationUpdate ==
  /\ taskRunning
  /\ ~undelivered
  /\ undelivered' = TRUE
  /\ UNCHANGED << besidesDriver, driverTab, isSharing, taskRunning, drivers,
                  toggles, dateNow >>

\* the handler of LOCATION_TRACKING_TASK runs: with an error, or with a
\* location that it writes (or fails to write) if a user is signed in
TaskDelivered ==
  /\ undelivered
  /\ undelivered' = FALSE
  /\ \/ /\ currentUser # "null"
        /\ drivers' = setDocMerge(drivers, currentUser,
                          [liveLocation |-> [latitude |-> 1, longitude |-> 1],
                           lastUpdated |-> "serverTimestamp"])
     \/ UNCHANGED drivers
  /\ UNCHANGED << besidesDriver, driverTab, isSharing, taskRunning, toggles, dateNow >>

NextDriver ==
  \/ AuthLost
  \/ MountDriver
  \/ CheckTaskStatusDone
  \/ PressToggle
  \/ StopDone
  \/ WriteCompletedDone
  \/ PermissionDone
  \/ StartDone
  \/ WriteActiveDone
  \/ LocationUpdate
  \/ TaskDelivered

\* handleLogin has brought the driver u2 to the Driver tab and fetchRole
\* has read the stored role; nothing was tracked before
InitDriver ==
  /\ InitDb({}, {Date(2025, 2, 5)}, {FALSE})
  /\ InitScreens
  /\ currentUser = "u2"
  /\ storedRole = "driver"
  /\ route = "tabs/driver"
  /\ login = NoLogin
  /\ role = "driver"
  /\ isLoading = FALSE
  /\ driverTab = "unmounted"

SpecDriver == InitDriver /\ [][NextDriver]_vars


\* the three permissions, each granted, in the order of the code
AllGranted ==
  [i \in 1..3 |-> [permission |-> PermissionOrder[i], status |-> "granted"]]

\* the call k has passed the three permission requests
PastPermissions(k) == toggles[k].pc \in { "start", "writeActive" }

\* this step is the call k going on from startLocationUpdatesAsync or
\* ending at its setDoc
StartStepOf(k) ==
  /\ PastPermissions(k)
  /\ \/ toggles' = Without(toggles, k)
     \/ toggles' = [toggles EXCEPT ![k].pc = "writeActive"]

\* a call gets past the requests only with the three of them granted
OnlyIfGranted ==
  \A k \in DOMAIN toggles : PastPermissions(k) => toggles[k].asked = AllGranted

\* a call that starts the task, writes a record or sets isSharing to true on
\* GO LIVE has passed the requests; the record it writes is 'active' under
\* its own, new session id
StartsOnlyPastPermissions ==
  [][(/\ toggles' # toggles
      /\ \E k \in DOMAIN toggles : toggles[k].pc \notin { "stop", "writeCompleted" }
                                    /\ \/ toggles' = Without(toggles, k)
                                       \/ toggles' = [toggles EXCEPT ![k].pc = "writeActive"]
      /\ \/ taskRunning' /\ ~taskRunning
         \/ drivers' # drivers
         \/ isSharing' /\ ~isSharing)
       => \E k \in DOMAIN toggles :
            /\ StartStepOf(k)
            /\ toggles[k].asked = AllGranted
            /\ drivers' # drivers =>
                 /\ fieldOf(drivers', toggles[k].uid, "status") = "active"
                 /\ fieldOf(drivers', toggles[k].uid, "currentSessionId")
                      = toggles[k].sessionId
                 /\ fieldOf(drivers, toggles[k].uid, "currentSessionId")
                      # toggles[k].sessionId]_vars

\* a call that ends at a permission request leaves the task, the records and
\* isSharing as they were
DenialStops ==
  [][\A k \in DOMAIN toggles :
       (toggles[k].pc = "ask" /\ toggles' = Without(toggles, k))
         => UNCHANGED << taskRunning, drivers, isSharing >>]_vars

(* C24: GO LIVE starts the location task, writes status 'active' with a new   *)
(* session id and sets isSharing to true only if the notification, the        *)
(* foreground-location and the background-location permissions were each      *)
(* granted, requested in that order; at the first denial the flow stops with  *)
(* the task not started, no record written and isSharing as it was.           *)
C24_PermissionGating ==
  [] OnlyIfGranted /\ StartsOnlyPastPermissions /\ DenialStops

\* a trip is live after the three grants while a second press of GO LIVE
\* waits for its third answer
C24_Witness ==
  /\ isSharing
  /\ taskRunning
  /\ fieldOf(drivers, "u2", "status") = "active"
  /\ \E k \in DOMAIN toggles : toggles[k].pc = "ask" /\ Len(toggles[k].asked) = 2


\* DriverScreen has made its check on mount and no call of
\* toggleRealtimeSharing awaits
NoToggleInProgress == driverTab = "ready" /\ toggles = << >>

(* C27: whenever no toggle is in progress, isSharing is true exactly when the *)
(* location task is running and the record of the driver has status          *)
(* 'active', also after a Firestore write or a start or stop call has failed. *)
C27_TrackingAgreement ==
  NoToggleInProgress =>
    (isSharing <=> (taskRunning /\ fieldOf(drivers, currentUser, "status") = "active"))


\* the fields of a driver record that the location task does not write
TripFields == { "driverName", "status", "currentSessionId" }

\* the status and the session id of an ended trip change only by the setDoc
\* of a GO LIVE, which makes it 'active' under the session id of that call
EndedStaysEnded ==
  [][\A u \in DOMAIN drivers :
       (/\ fieldOf(drivers, u, "status") = "completed"
        /\ \E f \in { "status", "currentSessionId" } :
             fieldOf(drivers', u, f) # fieldOf(drivers, u, f))
         => \E k \in DOMAIN toggles :
              /\ toggles[k].pc = "writeActive"
              /\ toggles[k].uid = u
              /\ toggles' = Without(toggles, k)
              /\ fieldOf(drivers', u, "status") = "active"
              /\ fieldOf(drivers', u, "currentSessionId") = toggles[k].sessionId]_vars

\* a run of the task handler leaves the other fields of every record as they
\* were, and every record when nobody is signed in
LocationOnly ==
  [][(undelivered /\ ~undelivered')
       => /\ \A u \in DOMAIN drivers', f \in TripFields :
               fieldOf(drivers', u, f) = fieldOf(drivers, u, f)
          /\ currentUser = "null" => drivers' = drivers]_vars

(* C28: once STOP & END TRIP has written status 'completed', the status and   *)
(* the currentSessionId of the record are unchanged until the next successful *)
(* GO LIVE; a background location update, even one delivered after the stop,  *)
(* modifies only liveLocation and lastUpdated, and writes nothing when no     *)
(* user is signed in.                                                         *)
C28_EndedTripsStayEnded == EndedStaysEnded /\ LocationOnly

\* the trip of session 1 has ended, the task is stopped, and a batch of
\* locations is still to be delivered
C28_Witness ==
  /\ fieldOf(drivers, "u2", "status") = "completed"
  /\ fieldOf(drivers, "u2", "currentSessionId") = "1"
  /\ ~taskRunning
  /\ undelivered


-----------------------------------------------------------------------------
(* The weekly editor with its loads in flight (finances.tsx 84-134).  The    *)
(* effect calls loadWeeklyData whenever selectedVehicle or weekStart has     *)
(* changed; the call awaits getDocs and then sets records, whatever has been *)
(* selected meanwhile.  loads holds the vehicle and the week of each call    *)
(* that awaits, loadedFor those of the call that set records last.           *)

\* the effect: loadWeeklyData() starts for the selection, up to getDocs
startLoad(vehicle, ws) ==
  IF vehicle = NoVehicle THEN loads' = loads
  ELSE loads' = Append(loads, [vehicle |-> vehicle, weekStart |-> ws])

\* onSnapshot of 'vehicles': setVehicles, setSelectedVehicle(vehicleList[0])
OnVehiclesSnapshotThenLoad ==
  /\ vehicles = << >>
  /\ vehicles' = vehicleDocs
  /\ selectedVehicle' = IF Len(vehicleDocs) > 0 THEN vehicleDocs[1] ELSE NoVehicle
  /\ startLoad(selectedVehicle', weekStart)
  /\ UNCHANGED << db, homeScreen, reportScreen, reminders, session, driver,
                  weekStart, records, loadedFor >>

\* vehicle menu: setSelectedVehicle(v)
SelectVehicleThenLoad ==
  \E i \in 1..Len(vehicles) :
    /\ vehicles[i] # selectedVehicle
    /\ Len(loads) < MaxInFlight
    /\ selectedVehicle' = vehicles[i]
    /\ startLoad(selectedVehicle', weekStart)
    /\ UNCHANGED << db, homeScreen, reportScreen, reminders, session, driver,
                    vehicles, weekStart, records, loadedFor >>

\* the chevrons: setWeekStart(subDays(weekStart, 7)) or (addDays(weekStart, 7))
SetWeekStartThenLoad ==
  \E ws \in { subDays(weekStart, 7), addDays(weekStart, 7) } \cap EditableWeeks :
    /\ Len(loads) < MaxInFlight
    /\ weekStart' = ws
    /\ startLoad(selectedVehicle, ws)
    /\ UNCHANGED << db, homeScreen, reportScreen, reminders, session, driver,
                    vehicles, selectedVehicle, records, loadedFor >>

\* getDocs of a call returns and the call sets records, or getDocs throws
WeekLoaded ==
  \E k \in DOMAIN loads :
    /\ loads' = Without(loads, k)
    /\ \/ /\ records' = loadWeeklyData(finances, loads[k].vehicle, loads[k].weekStart)
          /\ loadedFor' = loads[k]
       \/ UNCHANGED << records, loadedFor >>
    /\ UNCHANGED << db, homeScreen, reportScreen, reminders, session, driver,
                    vehicles, selectedVehicle, weekStart >>

NextLoads ==
  \/ OnVehiclesSnapshotThenLoad
  \/ SelectVehicleThenLoad
  \/ SetWeekStartThenLoad
  \/ WeekLoaded
  \/ UpdateSales
  \/ HandleSave

SpecLoads == InitEditor /\ [][NextLoads]_vars

\* the vehicle and the week on the screen
Selection == [vehicle |-> selectedVehicle, weekStart |-> weekStart]

\* what handleSave writes was loaded for the selection it is written under
SavedAsLoaded == [][finances' # finances => loadedFor = Selection]_vars

\* a call that sets records was started for the selection of that moment
NoStaleLoad == [][loadedFor' # loadedFor => loadedFor' = Selection]_vars

(* C25: whenever handleSave writes the week records under vehicle V, they     *)
(* were loaded (and then edited) for V and the displayed week; a load started *)
(* for an earlier selection that completes late never replaces the records of *)
(* the current selection, under any interleaving of selections, loads and     *)
(* saves.                                                                     *)
C25_LoadSaveConsistency == SavedAsLoaded /\ NoStaleLoad


-----------------------------------------------------------------------------
(* The weekly editor saving weeks and HomeScreen aggregating the months they *)
(* lie in, over one finances collection.                                     *)

NextSavedWeek ==
  \/ OnEditorVehiclesSnapshot
  \/ SetSelectedVehicle
  \/ PreviousWeek
  \/ FollowingWeek
  \/ HandleSave
  \/ OnVehiclesSnapshot
  \/ SetVehicleFilter
  \/ SetSelectedMonth
  \/ OnRefresh

SpecSavedWeek == InitEditor /\ [][NextSavedWeek]_vars

\* every day of the week has a stored record of the vehicle
SavedWeek(vehicleId, ws) ==
  \A k \in 1..7 : storedAt(finances, vehicleId, daysOfWeek(ws)[k]) # {}

\* the days listed under a label of a gap report
ListedUnder(gaps, label) ==
  IF label \in DOMAIN gaps THEN { gaps[label][n] : n \in 1..Len(gaps[label]) }
  ELSE {}

\* the run that the filters of HomeScreen start now
RunNow ==
  fetchSummaryData(RunInput(availableVehicles, vehicleFilter, summaryView,
                            selectedYear, selectedMonth, selectedQuarter,
                            includeAmortization))

(* C29: after handleSave has succeeded for vehicle V and week W, every later  *)
(* month-mode aggregation run reports none of the seven days of W as missing  *)
(* for V, the days the user never edited included.                            *)
C29_SavedWeekHasNoGaps ==
  summaryView = "month" =>
    \A r \in { RunNow } :
      r.status = "ok" =>
        \A i \in 1..Len(vehicleDocs), ws \in EditableWeeks :
          (/\ SavedWeek(vehicleDocs[i].id, ws)
           /\ vehicleFilter \in { "all", vehicleDocs[i].id })
            => \A k \in 1..7 :
                 LET dt == daysOfWeek(ws)[k]
                 IN (dt.y = selectedYear /\ dt.m = selectedMonth)
                      => dt.d \notin ListedUnder(r.missingDays,
                                    vehicleLabel(availableVehicles, vehicleDocs[i].id))


=============================================================================
